---- MODULE Spec2Model ----
(***************************************************************************)
(* Health monitor: the degradation analyzer (analyze_health_data), the     *)
(* incident correlator (handle_degradation_and_incidents), the incident    *)
(* operations (create_planned_incident, update_incident and the update     *)
(* endpoint), the degradation check endpoints, and the scheduler process   *)
(* with its probe rounds (check_endpoints, check_single_endpoint), all     *)
(* modelled over the Health_Status, Incident and Degradation_Events        *)
(* tables.                                                                 *)
(*                                                                         *)
(* Time is kept by the order of the rows of Health_Status: the variable    *)
(* expired counts the oldest rows that lie before the start of the         *)
(* analysis window.  The probe rounds read the variable clock for the      *)
(* timestamps of their observations; it ticks on its own and never runs    *)
(* backwards.  The interval trigger, the thread pool, the worker threads   *)
(* and the shutdown of the interpreter behave as the scheduler library and *)
(* the runtime document them; the actions that stand for them say so.      *)
(*                                                                         *)
(* Every commit of the code is one step: the sessions run on the default   *)
(* (read committed) isolation of the engine, so a select sees what other   *)
(* sessions have committed and a commit makes its rows visible at once.    *)
(*                                                                         *)
(* Percentages are computed by the code in floating point,                 *)
(* (a / b) * 100.0 >= t.  For every 0 <= a <= b <= 3000 and t in {70, 90}  *)
(* the floating point comparison agrees with a * 100 >= t * b over the     *)
(* integers, which is how AtLeastPercent states it.                        *)
(***************************************************************************)
EXTENDS Integers, Sequences, FiniteSets

VARIABLES
    health_status,   \* table Health_Status, rows in timestamp order
    expired,         \* how many of the oldest rows are older than now - HEALTH_CHECK_WINDOW
    analysis,        \* what the last analyze_health_data call returned or raised
    incidents,       \* table Incident, row i has id i
    events,          \* table Degradation_Events, row e has id e
    calls,           \* the running handle_degradation_and_incidents calls, one per caller
    requests,        \* the requests to the degradation check endpoints, one per caller
    is_live,         \* column is_live of Cloud_Services
    rounds,          \* the instances of the health check job, one per executor slot
    last_trigger,    \* what the most recent firing of the interval trigger did
    process,         \* the scheduler process: running, exiting or exited
    stop_requests,   \* signals the scheduler process has handled
    clock            \* the wall clock of the scheduler host, in ticks

prober == <<is_live, rounds, last_trigger, process, stop_requests, clock>>
vars == <<health_status, expired, analysis, incidents, events, calls, requests, prober>>

(***************************************************************************)
(* Bounds of the model.                                                    *)
(***************************************************************************)
MaxRecords == 10        \* rows of Health_Status
MaxAgedRecords == 4     \* rows of Health_Status once some of them are older than the window
MaxIncidents == 2       \* rows of Incident
MaxEvents == 2          \* rows of Degradation_Events
MaxProbeRecords == 2    \* rows of Health_Status that probe rounds persist
MaxClock == 2           \* ticks of the wall clock
MaxPoolResults == 2     \* probes that finish in a round of more services than workers

(***************************************************************************)
(* Configuration and data model.                                           *)
(***************************************************************************)
HEALTH_CHECK_WINDOW == 60
DEGRADATION_THRESHOLD == 70
CONCENTRATED_FAILURES_THRESHOLD == 90

None == 0                         \* Optional[int] = None; ids start at 1
Services == 1 .. 2                \* ids of the rows of Cloud_Services
ServiceIds == 0 .. 2              \* ids a caller may pass; 0 matches no service
MaxOtherRecords == Cardinality(Services \ {1})   \* one row for each service other than service 1
Callers == {"c1", "c2"}           \* concurrent request handlers

OPEN == "OPEN"
ACKNOWLEDGED == "ACKNOWLEDGED"
CLOSED == "CLOSED"
IncidentStatus == {OPEN, CLOSED, ACKNOWLEDGED}

PLANNED == "PLANNED"
UNPLANNED == "UN-PLANNED"
EventType == {PLANNED, UNPLANNED}

(***************************************************************************)
(* Degradation analyzer.                                                   *)
(***************************************************************************)

\* Rows with start_time <= timestamp <= end_time, end_time being now: the rows are in
\* timestamp order and none is stamped in the future, so these are all but the expired ones.
InWindow == SubSeq(health_status, expired + 1, Len(health_status))

\* Mutant of QueryHealthRecords: the select has no condition on the timestamp.
QueryHealthRecords_AllTime(service_id) ==
    SelectSeq(health_status, LAMBDA r : r.service_id = service_id)

\* select(Health_Status).where(and_(service_id == ..., timestamp >= start_time,
\* timestamp <= end_time)).order_by(timestamp)
QueryHealthRecords(service_id) ==
    SelectSeq(InWindow, LAMBDA r : r.service_id = service_id)

\* sum(1 for record in records if not record.is_health)
RECURSIVE CountUnhealthy(_)
CountUnhealthy(records) ==
    IF records = <<>> THEN 0
    ELSE (IF ~Head(records).is_health THEN 1 ELSE 0) + CountUnhealthy(Tail(records))

\* (part / whole) * 100.0 >= threshold, whole > 0
AtLeastPercent(part, whole, threshold) ==
    part * 100 >= threshold * whole

\* Mutant of MidPoint: the split rounds up, so the middle observation counts as old.
MidPoint_RoundsUp(health_records) == (Len(health_records) + 1) \div 2

\* mid_point = len(health_records) // 2
MidPoint(health_records) == Len(health_records) \div 2

\* Mutant of RecentRecords: the first half is taken, health_records[:mid_point].
RecentRecords_FirstHalf(health_records) ==
    SubSeq(health_records, 1, Len(health_records) \div 2)

\* recent_records = health_records[mid_point:]
RecentRecords(health_records) ==
    SubSeq(health_records, MidPoint(health_records) + 1, Len(health_records))

\* Mutant of FailureRateExceeded: the threshold is exclusive.
FailureRateExceeded_Strict(unhealthy_records, total_records) ==
    unhealthy_records * 100 > DEGRADATION_THRESHOLD * total_records

\* failure_percentage >= DEGRADATION_THRESHOLD
FailureRateExceeded(unhealthy_records, total_records) ==
    AtLeastPercent(unhealthy_records, total_records, DEGRADATION_THRESHOLD)

\* recent_failure_percentage >= CONCENTRATED_FAILURES_THRESHOLD
RecentConcentratedFailures(recent_unhealthy, unhealthy_records) ==
    AtLeastPercent(recent_unhealthy, unhealthy_records, CONCENTRATED_FAILURES_THRESHOLD)

\* The verdict on a non-empty list of records (lines 47-66).
IsDegraded(health_records) ==
    LET total_records == Len(health_records)
        unhealthy_records == CountUnhealthy(health_records)
        is_degraded == FailureRateExceeded(unhealthy_records, total_records)
        recent_unhealthy == CountUnhealthy(RecentRecords(health_records))
    IN  IF unhealthy_records > 0
        THEN is_degraded \/ RecentConcentratedFailures(recent_unhealthy, unhealthy_records)
        ELSE is_degraded

NoAnalysis == [status |-> "none", service_id |-> None, is_degraded |-> FALSE, total_records |-> 0]

\* Mutant of analyze_health_data: no early return for an empty window, so the failure
\* percentage divides by zero.
analyze_health_data_NoEmptyCheck(service_id) ==
    LET health_records == QueryHealthRecords(service_id)
    IN  IF service_id \notin Services
        THEN [status |-> "not_found", service_id |-> service_id,
              is_degraded |-> FALSE, total_records |-> 0]
        ELSE IF health_records = <<>>
        THEN [status |-> "error", service_id |-> service_id,
              is_degraded |-> FALSE, total_records |-> 0]
        ELSE [status |-> "ok", service_id |-> service_id,
              is_degraded |-> IsDegraded(health_records),
              total_records |-> Len(health_records)]

\* Mutant of analyze_health_data: a single observation is taken as too little data.
analyze_health_data_NeedsTwo(service_id) ==
    LET health_records == QueryHealthRecords(service_id)
    IN  IF service_id \notin Services
        THEN [status |-> "not_found", service_id |-> service_id,
              is_degraded |-> FALSE, total_records |-> 0]
        ELSE [status |-> "ok", service_id |-> service_id,
              is_degraded |-> Len(health_records) >= 2 /\ IsDegraded(health_records),
              total_records |-> Len(health_records)]

\* analyze_health_data(service_id, session): the verdict, or ValueError for an unknown service
analyze_health_data(service_id) ==
    LET health_records == QueryHealthRecords(service_id)
    IN  IF service_id \notin Services
        THEN [status |-> "not_found", service_id |-> service_id,
              is_degraded |-> FALSE, total_records |-> 0]
        ELSE IF health_records = <<>>
        THEN [status |-> "ok", service_id |-> service_id,
              is_degraded |-> FALSE, total_records |-> 0]
        ELSE [status |-> "ok", service_id |-> service_id,
              is_degraded |-> IsDegraded(health_records),
              total_records |-> Len(health_records)]

\* Rows of Health_Status that belong to services other than service 1.
\* Mutant of DegradationService_analyze_health_data: the verdict is the failure rate
\* alone, the concentration of recent failures is only reported.
DegradationService_analyze_health_data_RateOnly(service_id) ==
    LET health_records == QueryHealthRecords(service_id)
        total_records == Len(health_records)
        unhealthy_records == CountUnhealthy(health_records)
    IN  IF service_id \notin Services
        THEN [status |-> "not_found", is_degraded |-> FALSE,
              recent_concentrated_failures |-> FALSE,
              total_records |-> 0, unhealthy_records |-> 0]
        ELSE IF health_records = <<>>
        THEN [status |-> "ok", is_degraded |-> FALSE,
              recent_concentrated_failures |-> FALSE,
              total_records |-> 0, unhealthy_records |-> 0]
        ELSE [status |-> "ok",
              is_degraded |-> unhealthy_records * 100 >= 70 * total_records,
              recent_concentrated_failures |-> FALSE,
              total_records |-> total_records,
              unhealthy_records |-> unhealthy_records]

\* analyze_health_data of DegradationService/main.py with time_window_minutes = 60, its
\* default and what auto_check_degradation passes: the same query, the thresholds
\* written out as 70.0 and 90.0, and a dict for a result; the float failure_rate of the
\* dict is left out.
DegradationService_analyze_health_data(service_id) ==
    LET health_records == QueryHealthRecords(service_id)
        total_records == Len(health_records)
        unhealthy_records == CountUnhealthy(health_records)
        rate_exceeded == unhealthy_records * 100 >= 70 * total_records
        mid_point == Len(health_records) \div 2
        recent_records == SubSeq(health_records, mid_point + 1, Len(health_records))
        recent_unhealthy == CountUnhealthy(recent_records)
        recent_concentrated_failures ==
            IF unhealthy_records > 0
            THEN recent_unhealthy * 100 >= 90 * unhealthy_records
            ELSE FALSE
    IN  IF service_id \notin Services
        THEN [status |-> "not_found", is_degraded |-> FALSE,
              recent_concentrated_failures |-> FALSE,
              total_records |-> 0, unhealthy_records |-> 0]
        ELSE IF health_records = <<>>
        THEN [status |-> "ok", is_degraded |-> FALSE,
              recent_concentrated_failures |-> FALSE,
              total_records |-> 0, unhealthy_records |-> 0]
        ELSE [status |-> "ok",
              is_degraded |-> rate_exceeded \/ recent_concentrated_failures,
              recent_concentrated_failures |-> recent_concentrated_failures,
              total_records |-> total_records,
              unhealthy_records |-> unhealthy_records]

OtherRecords == SelectSeq(health_status, LAMBDA r : r.service_id # 1)

\* A row of Health_Status as the analyzer reads it: of the status code it only matters
\* that a healthy row has one of 200..299, so 200 and 0 stand for the codes.
Observation(service_id, is_health) ==
    [service_id |-> service_id, is_health |-> is_health,
     status_code |-> IF is_health THEN 200 ELSE 0]

\* The prober persists one observation of a service.
RecordObservation(service_id, is_health) ==
    /\ Len(health_status) < MaxRecords
    /\ service_id # 1 => Len(OtherRecords) < MaxOtherRecords
    /\ expired > 0 => Len(health_status) < MaxAgedRecords
    /\ health_status' = Append(health_status, Observation(service_id, is_health))
    /\ UNCHANGED <<analysis, incidents, events, calls, expired, requests, prober>>

\* Time passes: the n oldest rows still inside the window fall behind start_time.
AdvanceTime(n) ==
    /\ Len(health_status) <= MaxAgedRecords
    /\ expired + n <= Len(health_status)
    /\ expired' = expired + n
    /\ UNCHANGED <<health_status, analysis, incidents, events, calls, requests, prober>>

\* One call of analyze_health_data; it reads Health_Status and writes nothing.
Analyze(service_id) ==
    /\ analysis' = analyze_health_data(service_id)
    /\ UNCHANGED <<health_status, incidents, events, calls, expired, requests, prober>>

(***************************************************************************)
(* Incident correlator: handle_degradation_and_incidents.                  *)
(***************************************************************************)

IdleCall == [pc |-> "idle", service_id |-> None, is_degraded |-> FALSE,
             auto_triggered |-> FALSE, open_incident |-> None,
             degradation_event |-> None, incident |-> None,
             result |-> [incident_id |-> None, message |-> ""]]

\* Mutant of OpenIncidents: only status OPEN counts as open.
OpenIncidents_OnlyOpen(service_id) ==
    {i \in DOMAIN incidents :
        /\ incidents[i].service_id = service_id
        /\ incidents[i].status = OPEN}

\* Ids of the incidents of a service with status OPEN or ACKNOWLEDGED (lines 89-95).
OpenIncidents(service_id) ==
    {i \in DOMAIN incidents :
        /\ incidents[i].service_id = service_id
        /\ incidents[i].status \in {OPEN, ACKNOWLEDGED}}

\* Mutant of FirstOpenIncident: the select compares Incident.id with the service id.
FirstOpenIncident_ById(service_id) ==
    IF service_id \in OpenIncidents(service_id) THEN {service_id} ELSE {None}

\* What .first() may return: any matching row (the select has no ORDER BY), or None.
FirstOpenIncident(service_id) ==
    IF OpenIncidents(service_id) = {} THEN {None} ELSE OpenIncidents(service_id)

\* Degradation_Events(service_id, incident_id, time_window_minutes, auto_triggered); the
\* timestamp is filled in by the column's default_factory when the row is constructed,
\* and is counted here in events constructed so far.
NewDegradationEvent(service_id, open_incident, auto_triggered, timestamp) ==
    [service_id |-> service_id,
     incident_id |-> open_incident,
     timestamp |-> timestamp,
     time_window_minutes |-> HEALTH_CHECK_WINDOW,
     auto_triggered |-> auto_triggered]

\* Mutant of NewIncident: every incident of the correlator is tagged auto_run.
NewIncident_AlwaysAuto(service_id, degradation_event, auto_triggered) ==
    [service_id |-> service_id,
     status |-> OPEN,
     event_type |-> UNPLANNED,
     created_by |-> "auto_run",
     created_by_event |-> degradation_event]

\* Incident(created_by_event, created_by, service_id, event_type=UNPLANNED), status by default OPEN
NewIncident(service_id, degradation_event, auto_triggered) ==
    [service_id |-> service_id,
     status |-> OPEN,
     event_type |-> UNPLANNED,
     created_by |-> IF auto_triggered THEN "auto_run" ELSE "user",
     created_by_event |-> degradation_event]

\* Calls that have yet to insert their event.
PendingEvents == {p \in Callers : calls[p].pc \in {"lookup", "insert_event"}}

\* Mutant of Start: the call goes on to the lookup whatever is_degraded says.
Start_AlwaysCorrelates(p, service_id, is_degraded, auto_triggered) ==
    /\ calls[p].pc = "idle"
    /\ service_id \in Services => Len(events) + Cardinality(PendingEvents) < MaxEvents
    /\ calls' = [calls EXCEPT ![p] =
          [IdleCall EXCEPT
              !.service_id = service_id,
              !.is_degraded = is_degraded,
              !.auto_triggered = auto_triggered,
              !.pc = IF service_id \notin Services THEN "not_found" ELSE "lookup"]]
    /\ UNCHANGED <<health_status, analysis, incidents, events, expired, requests, prober>>

\* Lines 75-86: the service lookup and the not-degraded return.
Start(p, service_id, is_degraded, auto_triggered) ==
    /\ calls[p].pc = "idle"
    /\ (is_degraded /\ service_id \in Services)
          => Len(events) + Cardinality(PendingEvents) < MaxEvents
    /\ calls' = [calls EXCEPT ![p] =
          [IdleCall EXCEPT
              !.service_id = service_id,
              !.is_degraded = is_degraded,
              !.auto_triggered = auto_triggered,
              !.pc = IF service_id \notin Services THEN "not_found"
                     ELSE IF ~is_degraded THEN "done"
                     ELSE "lookup",
              !.result = [incident_id |-> None,
                          message |-> IF service_id \in Services /\ ~is_degraded
                                      THEN "not degraded" ELSE ""]]]
    /\ UNCHANGED <<health_status, analysis, incidents, events, expired, requests, prober>>

\* Lines 88-96: the select of an open incident.
Lookup(p) ==
    /\ calls[p].pc = "lookup"
    /\ \E found \in FirstOpenIncident(calls[p].service_id) :
          calls' = [calls EXCEPT ![p].open_incident = found,
                                 ![p].pc = "insert_event"]
    /\ UNCHANGED <<health_status, analysis, incidents, events, expired, requests, prober>>

\* Mutant of InsertEvent: the event is added a second time when an open incident was found.
InsertEvent_Twice(p) ==
    LET c == calls[p]
        id == Len(events) + 1
        event == NewDegradationEvent(c.service_id, c.open_incident, c.auto_triggered, id)
    IN  /\ c.pc = "insert_event"
        /\ events' = IF c.open_incident = None THEN Append(events, event)
                     ELSE Append(Append(events, event), event)
        /\ calls' = [calls EXCEPT
              ![p].degradation_event = id,
              ![p].pc = IF c.open_incident = None THEN "insert_incident" ELSE "done",
              ![p].result = IF c.open_incident = None THEN c.result
                            ELSE [incident_id |-> c.open_incident,
                                  message |-> "existing incident"]]
        /\ UNCHANGED <<health_status, analysis, incidents, expired, requests, prober>>

\* Lines 98-108 and 131-135: the event is committed; with an open incident the call returns.
InsertEvent(p) ==
    LET c == calls[p]
        id == Len(events) + 1
    IN  /\ c.pc = "insert_event"
        /\ events' = Append(events,
              NewDegradationEvent(c.service_id, c.open_incident, c.auto_triggered, id))
        /\ calls' = [calls EXCEPT
              ![p].degradation_event = id,
              ![p].pc = IF c.open_incident = None THEN "insert_incident" ELSE "done",
              ![p].result = IF c.open_incident = None THEN c.result
                            ELSE [incident_id |-> c.open_incident,
                                  message |-> "existing incident"]]
        /\ UNCHANGED <<health_status, analysis, incidents, expired, requests, prober>>

\* Mutant of InsertIncident: a closed incident of the service is reopened when there is one.
InsertIncident_Reopens(p) ==
    LET c == calls[p]
        closed == {i \in DOMAIN incidents :
                      incidents[i].service_id = c.service_id /\ incidents[i].status = CLOSED}
    IN  /\ c.pc = "insert_incident"
        /\ Len(incidents) < MaxIncidents
        /\ IF closed = {}
           THEN /\ incidents' = Append(incidents,
                      NewIncident(c.service_id, c.degradation_event, c.auto_triggered))
                /\ calls' = [calls EXCEPT ![p].incident = Len(incidents) + 1,
                                          ![p].pc = "backfill"]
           ELSE \E i \in closed :
                /\ incidents' = [incidents EXCEPT ![i].status = OPEN]
                /\ calls' = [calls EXCEPT ![p].incident = i, ![p].pc = "backfill"]
        /\ UNCHANGED <<health_status, analysis, events, expired, requests, prober>>

\* Lines 111-122: the new incident is committed.
InsertIncident(p) ==
    LET c == calls[p]
        id == Len(incidents) + 1
    IN  /\ c.pc = "insert_incident"
        /\ Len(incidents) < MaxIncidents
        /\ incidents' = Append(incidents,
              NewIncident(c.service_id, c.degradation_event, c.auto_triggered))
        /\ calls' = [calls EXCEPT ![p].incident = id, ![p].pc = "backfill"]
        /\ UNCHANGED <<health_status, analysis, events, expired, requests, prober>>

\* Mutant of Backfill: the event is never given the id of the new incident.
Backfill_NoLink(p) ==
    LET c == calls[p]
    IN  /\ c.pc = "backfill"
        /\ calls' = [calls EXCEPT
              ![p].pc = "done",
              ![p].result = [incident_id |-> c.incident, message |-> "new incident"]]
        /\ UNCHANGED <<health_status, analysis, incidents, events, expired, requests, prober>>

\* Mutant of Backfill: every event that has no incident yet is given the new one.
Backfill_AllPending(p) ==
    LET c == calls[p]
    IN  /\ c.pc = "backfill"
        /\ events' = [e \in DOMAIN events |->
                         IF events[e].incident_id = None
                         THEN [events[e] EXCEPT !.incident_id = c.incident]
                         ELSE events[e]]
        /\ calls' = [calls EXCEPT
              ![p].pc = "done",
              ![p].result = [incident_id |-> c.incident, message |-> "new incident"]]
        /\ UNCHANGED <<health_status, analysis, incidents, expired, requests, prober>>

\* Mutant of Backfill: every event of the service is pointed at the new incident.
Backfill_Relinks(p) ==
    LET c == calls[p]
    IN  /\ c.pc = "backfill"
        /\ events' = [e \in DOMAIN events |->
                         IF events[e].service_id = c.service_id
                         THEN [events[e] EXCEPT !.incident_id = c.incident]
                         ELSE events[e]]
        /\ calls' = [calls EXCEPT
              ![p].pc = "done",
              ![p].result = [incident_id |-> c.incident, message |-> "new incident"]]
        /\ UNCHANGED <<health_status, analysis, incidents, expired, requests, prober>>

\* Lines 124-130: the event's incident_id is set and committed; the call returns.
Backfill(p) ==
    LET c == calls[p]
    IN  /\ c.pc = "backfill"
        /\ events' = [events EXCEPT ![c.degradation_event].incident_id = c.incident]
        /\ calls' = [calls EXCEPT
              ![p].pc = "done",
              ![p].result = [incident_id |-> c.incident, message |-> "new incident"]]
        /\ UNCHANGED <<health_status, analysis, incidents, expired, requests, prober>>

\* A commit raises: that commit writes nothing, the exception leaves the function.
CommitFails(p) ==
    /\ calls[p].pc \in {"insert_event", "insert_incident", "backfill"}
    /\ calls' = [calls EXCEPT ![p].pc = "failed"]
    /\ UNCHANGED <<health_status, analysis, incidents, events, expired, requests, prober>>

\* The caller has its result or its exception; the handler is free for the next request.
Return(p) ==
    /\ calls[p].pc \in {"done", "failed", "not_found"}
    /\ calls' = [calls EXCEPT ![p] = IdleCall]
    /\ UNCHANGED <<health_status, analysis, incidents, events, expired, requests, prober>>

(***************************************************************************)
(* Incident operations.                                                    *)
(***************************************************************************)

\* Mutant of CreatePlannedIncident: a service with an open incident gets no planned one.
CreatePlannedIncident_Dedup(service_id) ==
    /\ service_id \in Services
    /\ OpenIncidents(service_id) = {}
    /\ Len(incidents) < MaxIncidents
    /\ incidents' = Append(incidents,
          [service_id |-> service_id,
           status |-> OPEN,
           event_type |-> PLANNED,
           created_by |-> "user",
           created_by_event |-> None])
    /\ UNCHANGED <<health_status, analysis, events, calls, expired, requests, prober>>

\* create_planned_incident for an existing service.
CreatePlannedIncident(service_id) ==
    /\ service_id \in Services
    /\ Len(incidents) < MaxIncidents
    /\ incidents' = Append(incidents,
          [service_id |-> service_id,
           status |-> OPEN,
           event_type |-> PLANNED,
           created_by |-> "user",
           created_by_event |-> None])
    /\ UNCHANGED <<health_status, analysis, events, calls, expired, requests, prober>>

\* for field, value in update_data.items(): if value is not None: setattr(incident, field, value)
SetStatus(incident, status) ==
    IF status # "" THEN [incident EXCEPT !.status = status] ELSE incident

\* update_incident of the service layer; status "" is an update that sets no status.
UpdateIncident(incident_id, status) ==
    /\ incident_id \in DOMAIN incidents
    /\ incidents' = [incidents EXCEPT ![incident_id] = SetStatus(@, status)]
    /\ UNCHANGED <<health_status, analysis, events, calls, expired, requests, prober>>

\* if request.status is not None: incident.status = request.status
EndpointSetStatus(incident, status) ==
    IF status # "" THEN [incident EXCEPT !.status = status] ELSE incident

\* PATCH /{incident_id}/update of the health endpoints.
UpdateIncidentEndpoint(incident_id, status) ==
    /\ incident_id \in DOMAIN incidents
    /\ incidents' = [incidents EXCEPT ![incident_id] = EndpointSetStatus(@, status)]
    /\ UNCHANGED <<health_status, analysis, events, calls, expired, requests, prober>>

(***************************************************************************)
(* Degradation check endpoints: auto_check_degradation and                 *)
(* check_service_degradation.                                              *)
(***************************************************************************)

IdleRequest == [pc |-> "idle", entry |-> "", service_id |-> None, http_status |-> 0,
                cause |-> "", is_degraded |-> FALSE, incident_id |-> None]

\* except Exception as e: raise HTTPException(status_code=500, detail=str(e)).
\* HTTPException is an Exception, so the handler also catches the 404 raised inside
\* the try block: whatever status was raised, the response carries 500.
ErrorResponse(raised_status) == 500

\* The body of both endpoints up to the call of handle_degradation_and_incidents: the
\* service is fetched, the window analysed, and a degraded service is handed to the
\* correlator.
HandleCheck(p, entry, service_id) ==
    /\ calls[p].pc = "idle"
    /\ LET request == [IdleRequest EXCEPT !.entry = entry, !.service_id = service_id]
           is_degraded == analyze_health_data(service_id).is_degraded
       IN  IF service_id \notin Services
           THEN /\ requests' = [requests EXCEPT ![p] =
                      [request EXCEPT !.pc = "responded",
                                      !.http_status = ErrorResponse(404),
                                      !.cause = "not_found"]]
                /\ UNCHANGED calls
           ELSE IF ~is_degraded
           THEN /\ requests' = [requests EXCEPT ![p] =
                      [request EXCEPT !.pc = "responded", !.http_status = 200]]
                /\ UNCHANGED calls
           ELSE /\ Len(events) + Cardinality(PendingEvents) < MaxEvents
                /\ requests' = [requests EXCEPT ![p] =
                      [request EXCEPT !.pc = "correlating", !.is_degraded = TRUE]]
                /\ calls' = [calls EXCEPT ![p] =
                      [IdleCall EXCEPT !.service_id = service_id,
                                       !.is_degraded = TRUE,
                                       !.auto_triggered = (entry = "auto"),
                                       !.pc = "lookup"]]
    /\ UNCHANGED <<health_status, expired, analysis, incidents, events, prober>>

\* A client calls one of the endpoints and the handler runs at once.
CheckDegradation(p, entry, service_id) ==
    /\ requests[p].pc = "idle"
    /\ HandleCheck(p, entry, service_id)

\* POST /auto-check-degradation/{service_id}
AutoCheck(p, service_id) == CheckDegradation(p, "auto", service_id)

\* POST /check-degradation/
ManualCheck(p, service_id) == CheckDegradation(p, "manual", service_id)

\* The correlator has returned or raised: the endpoint returns the result, or the
\* except clause turns the exception into a response.
Respond(p) ==
    /\ requests[p].pc = "correlating"
    /\ calls[p].pc \in {"done", "failed"}
    /\ requests' = [requests EXCEPT ![p] =
          IF calls[p].pc = "done"
          THEN [@ EXCEPT !.pc = "responded", !.http_status = 200,
                         !.incident_id = calls[p].result.incident_id]
          ELSE [@ EXCEPT !.pc = "responded", !.http_status = ErrorResponse(0),
                         !.cause = "commit_failed"]]
    /\ calls' = [calls EXCEPT ![p] = IdleCall]
    /\ UNCHANGED <<health_status, expired, analysis, incidents, events, prober>>

\* The client has its response.
CloseRequest(p) ==
    /\ requests[p].pc = "responded"
    /\ requests' = [requests EXCEPT ![p] = IdleRequest]
    /\ UNCHANGED <<health_status, expired, analysis, incidents, events, calls, prober>>

(***************************************************************************)
(* Prober and scheduler: check_single_endpoint, check_endpoints,           *)
(* start_scheduler and the signal handler of the scheduler process.        *)
(***************************************************************************)

RoundSlots == 1 .. 2              \* worker threads of the executor that can run the job

max_workers == 10                 \* ThreadPoolExecutor(max_workers=10)

IdleRound == [pc |-> "never_run", previous |-> "never_run", services |-> {},
              pending |-> {}, running |-> {}, waiting |-> {}, results |-> <<>>,
              degradation_requests |-> <<>>]

\* executor.submit gives a task a thread of its own while the pool has fewer than
\* max_workers threads; the tasks beyond that wait in the queue of the pool.  The
\* select has no ORDER BY, so any max_workers of the services may come first.
Submitted(services) ==
    IF Cardinality(services) <= max_workers THEN {services}
    ELSE {r \in SUBSET services : Cardinality(r) = max_workers}

\* check_endpoints has selected its services and submitted one task for each.
StartedRound(previous, services, running) ==
    [pc |-> "probing", previous |-> previous, services |-> services,
     pending |-> services, running |-> running, waiting |-> {}, results |-> <<>>,
     degradation_requests |-> <<>>]

\* What requests.get can come back with: a response with a status code, or an
\* exception (timeout, refused connection, any transport error).
StatusCodes == {200, 299, 300, 500}
NoResponse == [completed |-> FALSE, status_code |-> 0]
Responses == {[completed |-> TRUE, status_code |-> c] : c \in StatusCodes} \cup {NoResponse}

\* Mutant of IsHealthy: the upper end of the range is taken inclusive.
IsHealthy_Through300(response) ==
    response.completed /\ 200 <= response.status_code /\ response.status_code <= 300

\* is_healthy = 200 <= response.status_code < 300; False when the request raised
IsHealthy(response) ==
    response.completed /\ 200 <= response.status_code /\ response.status_code < 300

\* What requests.post to the auto-check endpoint can come back with: a 200 response,
\* a response with another status, or an exception (timeout, analyzer unreachable).
AnalyzerOutcomes == {"ok", "error_response", "timeout", "unreachable"}

\* Mutant of DegradationRequests: the auto-check endpoint is called after every probe.
DegradationRequests_Always(service_id, response) == <<service_id>>

\* Lines 36-40: the POSTs to /auto-check-degradation/{service.id} one probe issues.
DegradationRequests(service_id, response) ==
    IF IsHealthy(response) THEN <<>> ELSE <<service_id>>

\* Mutant of check_single_endpoint: a failed call of the analyzer leaves the function
\* as an exception.
check_single_endpoint_Propagates(service_id, response, analyzer, now) ==
    [service_id |-> service_id,
     is_health |-> IsHealthy(response),
     timestamp |-> now,
     status_code |-> IF response.completed THEN response.status_code ELSE 0,
     response |-> response,
     degradation_checked |-> ~IsHealthy(response),
     degradation_check |-> IF IsHealthy(response) THEN "none" ELSE analyzer,
     raised |-> ~IsHealthy(response) /\ analyzer # "ok"]

\* check_single_endpoint(service): the result of one probe.  Both requests sit in
\* try/except Exception blocks, so the function returns its dict whatever they do;
\* the call of the auto-check endpoint for an unhealthy service has no part in it.
\* The timestamp is datetime.now(timezone.utc) read when the dict is built.
check_single_endpoint(service_id, response, analyzer, now) ==
    [service_id |-> service_id,
     is_health |-> IsHealthy(response),
     timestamp |-> now,
     status_code |-> IF response.completed THEN response.status_code ELSE 0,
     response |-> response,
     degradation_checked |-> ~IsHealthy(response),
     degradation_check |-> IF IsHealthy(response) THEN "none" ELSE analyzer,
     raised |-> FALSE]

\* Health_Status(service_id, is_health, timestamp, status_code) for one result
HealthStatusRow(result) ==
    [service_id |-> result.service_id,
     is_health |-> result.is_health,
     timestamp |-> result.timestamp,
     status_code |-> result.status_code]

\* select(Cloud_Services).where(Cloud_Services.is_live == True)
LiveServices == {s \in Services : is_live[s]}

\* Instances of the job that are executing.
RunningRounds == {i \in RoundSlots : rounds[i].pc = "probing"}

\* The slot the executor gives the next instance: the first worker that is free.
FreeSlot == CHOOSE i \in RoundSlots \ RunningRounds : \A j \in RoundSlots \ RunningRounds : i <= j

\* An operator switches a service on or off in the registry.
SetLive(s, live) ==
    /\ is_live[s] # live
    /\ is_live' = [is_live EXCEPT ![s] = live]
    /\ UNCHANGED <<health_status, expired, analysis, incidents, events, calls, requests,
                   rounds, last_trigger, process, stop_requests, clock>>

\* Mutant of TimerStartsRound: the job is added with room for a second instance.
TimerStartsRound_Overlapping ==
    /\ process = "running"
    /\ RunningRounds # RoundSlots
    /\ Len(health_status) + Cardinality(LiveServices) <= MaxProbeRecords
    /\ \E running \in Submitted(LiveServices) :
          rounds' = [rounds EXCEPT ![FreeSlot] =
             StartedRound(rounds[FreeSlot].pc, LiveServices, running)]
    /\ last_trigger' = "started"
    /\ UNCHANGED <<health_status, expired, analysis, incidents, events, calls, requests,
                   is_live, process, stop_requests, clock>>

\* Mutant of TimerStartsRound: the trigger starts rounds while the process shuts down.
TimerStartsRound_IgnoresStop ==
    /\ process \in {"running", "exiting"}
    /\ RunningRounds = {}
    /\ Len(health_status) + Cardinality(LiveServices) <= MaxProbeRecords
    /\ \E running \in Submitted(LiveServices) :
          rounds' = [rounds EXCEPT ![FreeSlot] =
             StartedRound(rounds[FreeSlot].pc, LiveServices, running)]
    /\ last_trigger' = "started"
    /\ UNCHANGED <<health_status, expired, analysis, incidents, events, calls, requests,
                   is_live, process, stop_requests, clock>>

\* The interval trigger fires and the job has no instance running: check_endpoints
\* starts and selects the live services.  add_job leaves max_instances at its
\* default of one.
TimerStartsRound ==
    /\ process = "running"
    /\ RunningRounds = {}
    /\ Len(health_status) + Cardinality(LiveServices) <= MaxProbeRecords
    /\ \E running \in Submitted(LiveServices) :
          rounds' = [rounds EXCEPT ![FreeSlot] =
             StartedRound(rounds[FreeSlot].pc, LiveServices, running)]
    /\ last_trigger' = "started"
    /\ UNCHANGED <<health_status, expired, analysis, incidents, events, calls, requests,
                   is_live, process, stop_requests, clock>>

\* The interval trigger fires while an instance of the job is still running: the
\* scheduler skips this run.
TimerSkipsRound ==
    /\ process = "running"
    /\ RunningRounds # {}
    /\ last_trigger' = "skipped"
    /\ UNCHANGED <<health_status, expired, analysis, incidents, events, calls, requests,
                   is_live, rounds, process, stop_requests, clock>>

\* The interval trigger fires while the interpreter shuts down: the thread pool of the
\* scheduler takes no new work.
TimerRefused ==
    /\ process = "exiting"
    /\ last_trigger' = "refused"
    /\ UNCHANGED <<health_status, expired, analysis, incidents, events, calls, requests,
                   is_live, rounds, process, stop_requests, clock>>

\* Mutant of WorkerTakes: the pool starts a thread for every task that waits.
WorkerTakes_Unbounded(i, s) ==
    /\ process # "exited"
    /\ rounds[i].pc = "probing"
    /\ s \in rounds[i].pending \ rounds[i].running
    /\ rounds' = [rounds EXCEPT ![i].running = @ \cup {s}]
    /\ UNCHANGED <<health_status, expired, analysis, incidents, events, calls, requests,
                   is_live, last_trigger, process, stop_requests, clock>>

\* A worker thread that has finished its task takes a waiting task from the queue
\* of the pool.
WorkerTakes(i, s) ==
    /\ process # "exited"
    /\ rounds[i].pc = "probing"
    /\ s \in rounds[i].pending \ rounds[i].running
    /\ Cardinality(rounds[i].running) < max_workers
    /\ rounds' = [rounds EXCEPT ![i].running = @ \cup {s}]
    /\ UNCHANGED <<health_status, expired, analysis, incidents, events, calls, requests,
                   is_live, last_trigger, process, stop_requests, clock>>

\* Mutant of Probe: the POST to the analyzer is made without a timeout, and the probe
\* returns only when the analyzer has answered.
Probe_WaitsForAnalyzer(i, s, response, analyzer) ==
    LET result == check_single_endpoint(s, response, analyzer, clock)
    IN  /\ process # "exited"
        /\ rounds[i].pc = "probing"
        /\ s \in rounds[i].running
        /\ IsHealthy(response) \/ analyzer \in {"ok", "error_response"}
        /\ rounds' = [rounds EXCEPT
              ![i].pending = @ \ {s},
              ![i].running = @ \ {s},
              ![i].degradation_requests = @ \o DegradationRequests(s, response),
              ![i].results = IF result.raised THEN @ ELSE Append(@, result),
              ![i].pc = IF result.raised THEN "failed" ELSE @]
        /\ UNCHANGED <<health_status, expired, analysis, incidents, events, calls, requests,
                       is_live, last_trigger, process, stop_requests, clock>>

\* One worker of the round runs check_single_endpoint to its end: the GET, for an
\* unhealthy service the POST to the analyzer, then the return; as_completed hands the
\* result to the loop, which appends it to results.  future.result() raises what the
\* function raised, and that would end check_endpoints.
Probe(i, s, response, analyzer) ==
    LET result == check_single_endpoint(s, response, analyzer, clock)
    IN  /\ process # "exited"
        /\ rounds[i].pc = "probing"
        /\ s \in rounds[i].running
        /\ rounds' = [rounds EXCEPT
              ![i].pending = @ \ {s},
              ![i].running = @ \ {s},
              ![i].degradation_requests = @ \o DegradationRequests(s, response),
              ![i].results = IF result.raised THEN @ ELSE Append(@, result),
              ![i].pc = IF result.raised THEN "failed" ELSE @]
    /\ UNCHANGED <<health_status, expired, analysis, incidents, events, calls, requests,
                   is_live, last_trigger, process, stop_requests, clock>>

\* The worker of service s has an unhealthy result from its GET and sends
\* requests.post(degradation_url, timeout=10) on connection p; it waits for the answer.
ProbeSends(i, s, response, p) ==
    /\ process # "exited"
    /\ rounds[i].pc = "probing"
    /\ s \in rounds[i].running
    /\ \A w \in rounds[i].waiting : w.service_id # s
    /\ ~IsHealthy(response)
    /\ requests[p].pc = "idle"
    /\ calls[p].pc = "idle"
    /\ requests' = [requests EXCEPT ![p] =
          [IdleRequest EXCEPT !.pc = "sent", !.entry = "auto", !.service_id = s]]
    /\ rounds' = [rounds EXCEPT
          ![i].waiting = @ \cup {[service_id |-> s, response |-> response, caller |-> p]},
          ![i].degradation_requests = @ \o DegradationRequests(s, response)]
    /\ UNCHANGED <<health_status, expired, analysis, incidents, events, calls,
                   is_live, last_trigger, process, stop_requests, clock>>

\* The auto-check endpoint takes the request a probe has sent.  The endpoint is a
\* plain def, which the server runs on a worker thread to its end whether or not the
\* client still waits.
ServeAutoCheck(p) ==
    /\ requests[p].pc = "sent"
    /\ HandleCheck(p, "auto", requests[p].service_id)

\* The answer of the endpoint reaches the worker within the timeout; the worker builds
\* its result and check_endpoints collects it.
ProbeReceives(i, w) ==
    LET analyzer == IF requests[w.caller].http_status = 200 THEN "ok" ELSE "error_response"
        result == check_single_endpoint(w.service_id, w.response, analyzer, clock)
    IN  /\ process # "exited"
        /\ rounds[i].pc = "probing"
        /\ w \in rounds[i].waiting
        /\ requests[w.caller].pc = "responded"
        /\ rounds' = [rounds EXCEPT
              ![i].waiting = @ \ {w},
              ![i].pending = @ \ {w.service_id},
              ![i].running = @ \ {w.service_id},
              ![i].results = Append(@, result)]
        /\ requests' = [requests EXCEPT ![w.caller] = IdleRequest]
        /\ UNCHANGED <<health_status, expired, analysis, incidents, events, calls,
                       is_live, last_trigger, process, stop_requests, clock>>

\* Ten seconds pass without an answer: requests.post raises, the except clause prints,
\* and the worker builds its result.  The request stays with the server.
ProbeGivesUp(i, w) ==
    LET result == check_single_endpoint(w.service_id, w.response, "timeout", clock)
    IN  /\ process # "exited"
        /\ rounds[i].pc = "probing"
        /\ w \in rounds[i].waiting
        /\ rounds' = [rounds EXCEPT
              ![i].waiting = @ \ {w},
              ![i].pending = @ \ {w.service_id},
              ![i].running = @ \ {w.service_id},
              ![i].results = Append(@, result)]
        /\ UNCHANGED <<health_status, expired, analysis, incidents, events, calls, requests,
                       is_live, last_trigger, process, stop_requests, clock>>

\* No worker waits for the answer on connection p.
Abandoned(p) ==
    \A i \in RoundSlots :
        rounds[i].pc = "probing" => \A w \in rounds[i].waiting : w.caller # p

\* The answer to a request whose client has gone is dropped.
DropResponse(p) ==
    /\ Abandoned(p)
    /\ CloseRequest(p)

\* Mutant of CommitRound: results of failed requests are left out of the batch.
CommitRound_DropsFailed(i) ==
    /\ process # "exited"
    /\ rounds[i].pc = "probing"
    /\ rounds[i].pending = {}
    /\ health_status' = health_status \o
          SelectSeq([k \in 1 .. Len(rounds[i].results) |-> HealthStatusRow(rounds[i].results[k])],
                    LAMBDA r : r.status_code # 0)
    /\ rounds' = [rounds EXCEPT ![i].pc = "completed"]
    /\ UNCHANGED <<expired, analysis, incidents, events, calls, requests,
                   is_live, last_trigger, process, stop_requests, clock>>

\* Mutant of CommitRound: the results that are in are committed without waiting for
\* the probes still out.
CommitRound_Early(i) ==
    /\ process # "exited"
    /\ rounds[i].pc = "probing"
    /\ health_status' = health_status \o
          [k \in 1 .. Len(rounds[i].results) |-> HealthStatusRow(rounds[i].results[k])]
    /\ rounds' = [rounds EXCEPT ![i].pc = "completed"]
    /\ UNCHANGED <<expired, analysis, incidents, events, calls, requests,
                   is_live, last_trigger, process, stop_requests, clock>>

\* Every probe of the round is in: session.add_all(health_statuses); session.commit()
CommitRound(i) ==
    /\ process # "exited"
    /\ rounds[i].pc = "probing"
    /\ rounds[i].pending = {}
    /\ health_status' = health_status \o
          [k \in 1 .. Len(rounds[i].results) |-> HealthStatusRow(rounds[i].results[k])]
    /\ rounds' = [rounds EXCEPT ![i].pc = "completed"]
    /\ UNCHANGED <<expired, analysis, incidents, events, calls, requests,
                   is_live, last_trigger, process, stop_requests, clock>>

\* Mutant of RoundFails: the exception of the job takes the process down.
RoundFails_Crashes(i) ==
    /\ process # "exited"
    /\ rounds[i].pc = "probing"
    /\ rounds[i].results = <<>> \/ rounds[i].pending = {}
    /\ rounds' = [rounds EXCEPT ![i].pc = "failed"]
    /\ process' = "exited"
    /\ UNCHANGED <<health_status, expired, analysis, incidents, events, calls, requests,
                   is_live, last_trigger, stop_requests, clock>>

\* check_endpoints raises: the select of the services or the commit of the batch
\* fails.  Nothing is persisted; the scheduler logs the exception of the job.
RoundFails(i) ==
    /\ process # "exited"
    /\ rounds[i].pc = "probing"
    /\ rounds[i].results = <<>> \/ rounds[i].pending = {}
    /\ rounds' = [rounds EXCEPT ![i].pc = "failed"]
    /\ UNCHANGED <<health_status, expired, analysis, incidents, events, calls, requests,
                   is_live, last_trigger, process, stop_requests, clock>>

\* Time passes on the host of the scheduler.
Tick ==
    /\ clock < MaxClock
    /\ clock' = clock + 1
    /\ UNCHANGED <<health_status, expired, analysis, incidents, events, calls, requests,
                   is_live, rounds, last_trigger, process, stop_requests>>

\* SIGINT or SIGTERM: signal_handler calls sys.exit(0).  The first signal makes the
\* interpreter shut down, which joins the worker threads; a signal that arrives during
\* that wait raises SystemExit inside it and the process exits without waiting.
StopRequest ==
    /\ process \in {"running", "exiting"}
    /\ process' = IF process = "running" THEN "exiting" ELSE "exited"
    /\ stop_requests' = stop_requests + 1
    /\ UNCHANGED <<health_status, expired, analysis, incidents, events, calls, requests,
                   is_live, rounds, last_trigger, clock>>

\* The interpreter has joined the worker threads: the process is gone.
ProcessExits ==
    /\ process = "exiting"
    /\ RunningRounds = {}
    /\ process' = "exited"
    /\ UNCHANGED <<health_status, expired, analysis, incidents, events, calls, requests,
                   is_live, rounds, last_trigger, stop_requests, clock>>

(***************************************************************************)
(* Specifications.                                                         *)
(***************************************************************************)

\* No request is in progress.
InitRequests == requests = [p \in Callers |-> IdleRequest]

\* The scheduler process has started: every service is live, the job has not run yet.
InitProber ==
    /\ is_live = [s \in Services |-> TRUE]
    /\ rounds = [i \in RoundSlots |-> IdleRound]
    /\ last_trigger = "none"
    /\ process = "running"
    /\ stop_requests = 0
    /\ clock = 0

Init ==
    /\ health_status = <<>>
    /\ expired = 0
    /\ analysis = NoAnalysis
    /\ incidents = <<>>
    /\ events = <<>>
    /\ calls = [p \in Callers |-> IdleCall]
    /\ InitRequests
    /\ InitProber

\* A step of the correlate call of caller p.
CallStep(p) ==
    \/ \E s \in ServiceIds, d \in BOOLEAN, a \in BOOLEAN : Start(p, s, d, a)
    \/ Lookup(p)
    \/ InsertEvent(p)
    \/ InsertIncident(p)
    \/ Backfill(p)
    \/ CommitFails(p)
    \/ Return(p)

CorrelateStep == \E p \in Callers : CallStep(p)

OperatorStep ==
    \/ \E s \in Services : CreatePlannedIncident(s)
    \/ \E i \in 1 .. MaxIncidents, st \in IncidentStatus \cup {""} : UpdateIncident(i, st)
    \/ \E i \in 1 .. MaxIncidents, st \in IncidentStatus \cup {""} : UpdateIncidentEndpoint(i, st)

\* The correlator and the incident operations over the Incident and Degradation_Events
\* tables: the calls of one caller beside the operator.  Calls that race each other are
\* the subject of SpecCorrelate.
Next == CallStep("c1") \/ OperatorStep

Spec == Init /\ [][Next]_vars

\* Every operation on the incidents and events of service 1: the correlate calls of one
\* caller on behalf of the auto-check, the planned incidents, the incident updates and
\* the analyzer.
OperateStep ==
    \/ \E d \in BOOLEAN : Start("c1", 1, d, TRUE)
    \/ Lookup("c1")
    \/ InsertEvent("c1")
    \/ InsertIncident("c1")
    \/ Backfill("c1")
    \/ CommitFails("c1")
    \/ Return("c1")
    \/ CreatePlannedIncident(1)
    \/ \E i \in 1 .. MaxIncidents, st \in IncidentStatus : UpdateIncident(i, st)
    \/ Analyze(1)

SpecOperate == Init /\ [][OperateStep]_vars

\* Stores an operator can have left behind: no incident, or one planned incident in any status.
InitCorrelate ==
    /\ health_status = <<>>
    /\ expired = 0
    /\ InitRequests
    /\ InitProber
    /\ analysis = NoAnalysis
    /\ events = <<>>
    /\ calls = [p \in Callers |-> IdleCall]
    /\ incidents \in {<<>>} \cup
          {<<[service_id |-> s, status |-> st, event_type |-> PLANNED,
              created_by |-> "user", created_by_event |-> None]>> :
                s \in Services, st \in IncidentStatus}

\* Correlate calls alone, interleaved at every commit.
SpecCorrelate == InitCorrelate /\ [][CorrelateStep]_vars

\* A step of a correlate call whose commits all succeed.
CommittedCallStep(p) ==
    \/ \E s \in ServiceIds, d \in BOOLEAN, a \in BOOLEAN : Start(p, s, d, a)
    \/ Lookup(p)
    \/ InsertEvent(p)
    \/ InsertIncident(p)
    \/ Backfill(p)
    \/ Return(p)

CommittedStep == \E p \in Callers : CommittedCallStep(p)

\* Racing correlate calls over a store that accepts every commit.
SpecCommitted == InitCorrelate /\ [][CommittedStep]_vars

AnalyzeStep ==
    \/ \E s \in Services, h \in BOOLEAN : RecordObservation(s, h)
    \/ \E s \in ServiceIds : Analyze(s)

\* The analyzer over the Health_Status table.
SpecAnalyze == Init /\ [][AnalyzeStep]_vars

\* The store a completed correlate call for a degraded service leaves behind.
CorrelatedStore(service_id) ==
    [incidents |-> <<NewIncident(service_id, 1, TRUE)>>,
     events |-> <<NewDegradationEvent(service_id, 1, TRUE, 1)>>]

\* One observation that has already fallen out of the window; no incident, or one
\* incident with its event.
InitWindow ==
    /\ health_status \in {<<Observation(s, h)>> : s \in Services, h \in BOOLEAN}
    /\ expired = 1
    /\ analysis = NoAnalysis
    /\ \E store \in {[incidents |-> <<>>, events |-> <<>>]} \cup
                      {CorrelatedStore(s) : s \in Services} :
          /\ incidents = store.incidents
          /\ events = store.events
    /\ calls = [p \in Callers |-> IdleCall]
    /\ InitRequests
    /\ InitProber

WindowStep ==
    \/ \E s \in Services, h \in BOOLEAN : RecordObservation(s, h)
    \/ \E n \in 1 .. MaxAgedRecords : AdvanceTime(n)
    \/ \E s \in ServiceIds : Analyze(s)

\* The analyzer while observations age out of the window.
SpecWindow == InitWindow /\ [][WindowStep]_vars

\* No observation or one observation in the window; no incident, or one planned
\* incident in any status.
InitEndpoint ==
    /\ health_status \in {<<>>} \cup {<<Observation(s, h)>> : s \in Services, h \in BOOLEAN}
    /\ expired = 0
    /\ analysis = NoAnalysis
    /\ events = <<>>
    /\ calls = [p \in Callers |-> IdleCall]
    /\ incidents \in {<<>>} \cup
          {<<[service_id |-> s, status |-> st, event_type |-> PLANNED,
              created_by |-> "user", created_by_event |-> None]>> :
                s \in Services, st \in IncidentStatus}
    /\ InitRequests
    /\ InitProber

EndpointStep ==
    \E p \in Callers :
        \/ \E s \in ServiceIds : AutoCheck(p, s)
        \/ \E s \in ServiceIds : ManualCheck(p, s)
        \/ Lookup(p)
        \/ InsertEvent(p)
        \/ InsertIncident(p)
        \/ Backfill(p)
        \/ CommitFails(p)
        \/ Respond(p)
        \/ CloseRequest(p)

SchedulerStep ==
    \/ \E s \in Services, live \in BOOLEAN : SetLive(s, live)
    \/ TimerStartsRound
    \/ TimerSkipsRound
    \/ TimerRefused
    \/ \E i \in RoundSlots, s \in Services, response \in Responses : Probe(i, s, response, "ok")
    \/ \E i \in RoundSlots : CommitRound(i)
    \/ \E i \in RoundSlots : RoundFails(i)
    \/ StopRequest
    \/ ProcessExits

\* The scheduler process: the interval trigger, the probe rounds and the signals, beside
\* an analyzer that answers every call and with the clock left out.
SpecScheduler == Init /\ [][SchedulerStep]_vars

\* A healthy answer, an unhealthy answer and a request that raised.
RoundResponses ==
    {[completed |-> TRUE, status_code |-> 200], [completed |-> TRUE, status_code |-> 500],
     NoResponse}

RoundStep ==
    \/ \E s \in Services, live \in BOOLEAN : SetLive(s, live)
    \/ TimerStartsRound
    \/ \E i \in RoundSlots, s \in Services, response \in RoundResponses,
          analyzer \in AnalyzerOutcomes : Probe(i, s, response, analyzer)
    \/ \E i \in RoundSlots : CommitRound(i)
    \/ \E i \in RoundSlots : RoundFails(i)

\* The probe rounds of a scheduler that is not being stopped, with everything the
\* probes and the calls of the analyzer can come back with.
SpecRound == Init /\ [][RoundStep]_vars

ClockStep ==
    \/ \E s \in Services, live \in BOOLEAN : SetLive(s, live)
    \/ TimerStartsRound
    \/ \E i \in RoundSlots, s \in Services : Probe(i, s, NoResponse, "timeout")
    \/ \E i \in RoundSlots : CommitRound(i)
    \/ \E i \in RoundSlots : RoundFails(i)
    \/ Tick

\* The probe rounds against the wall clock: every probe times out, and so does the
\* call of the analyzer that follows it.
SpecClock == Init /\ [][ClockStep]_vars

\* requests.get and requests.post carry timeout=10, so a probe that a worker runs
\* returns; the as_completed loop ends once every future is done and the commit follows.
ClockFairness ==
    /\ \A i \in RoundSlots, s \in Services : WF_vars(Probe(i, s, NoResponse, "timeout"))
    /\ \A i \in RoundSlots : WF_vars(CommitRound(i))

SpecClockFair == SpecClock /\ ClockFairness

HealthyResponse == [completed |-> TRUE, status_code |-> 200]
UnhealthyResponses == {[completed |-> TRUE, status_code |-> 500], NoResponse}

\* The scheduler starts on an empty store with service 1 as its one live service.
InitMonitor ==
    /\ health_status = <<>>
    /\ expired = 0
    /\ analysis = NoAnalysis
    /\ incidents = <<>>
    /\ events = <<>>
    /\ calls = [p \in Callers |-> IdleCall]
    /\ InitRequests
    /\ is_live = [s \in Services |-> s = 1]
    /\ rounds = [i \in RoundSlots |-> IdleRound]
    /\ last_trigger = "none"
    /\ process = "running"
    /\ stop_requests = 0
    /\ clock = 0

\* The prober and the auto-check endpoint it calls, with the correlator behind it.
MonitorStep ==
    \/ TimerStartsRound
    \/ \E i \in RoundSlots, s \in Services :
          /\ \A w \in rounds[i].waiting : w.service_id # s
          /\ Probe(i, s, HealthyResponse, "ok")
    \/ \E i \in RoundSlots, s \in Services, response \in UnhealthyResponses, p \in Callers :
          ProbeSends(i, s, response, p)
    \/ \E i \in RoundSlots : \E w \in rounds[i].waiting : ProbeReceives(i, w)
    \/ \E i \in RoundSlots : \E w \in rounds[i].waiting : ProbeGivesUp(i, w)
    \/ \E i \in RoundSlots : CommitRound(i)
    \/ \E p \in Callers :
          \/ ServeAutoCheck(p)
          \/ Lookup(p)
          \/ InsertEvent(p)
          \/ InsertIncident(p)
          \/ Backfill(p)
          \/ CommitFails(p)
          \/ Respond(p)
          \/ DropResponse(p)

SpecMonitor == InitMonitor /\ [][MonitorStep]_vars

\* As InitMonitor, over a store in which an operator may have left a planned incident
\* of service 1 in any status.
InitOutage ==
    /\ health_status = <<>>
    /\ expired = 0
    /\ analysis = NoAnalysis
    /\ incidents \in {<<>>} \cup
          {<<[service_id |-> 1, status |-> st, event_type |-> PLANNED,
              created_by |-> "user", created_by_event |-> None]>> : st \in IncidentStatus}
    /\ events = <<>>
    /\ calls = [p \in Callers |-> IdleCall]
    /\ InitRequests
    /\ is_live = [s \in Services |-> s = 1]
    /\ rounds = [i \in RoundSlots |-> IdleRound]
    /\ last_trigger = "none"
    /\ process = "running"
    /\ stop_requests = 0
    /\ clock = 0

\* An outage of service 1: every probe is unhealthy, the endpoint answers every
\* request in time and every commit succeeds.
OutageStep ==
    \/ TimerStartsRound
    \/ \E i \in RoundSlots, response \in UnhealthyResponses, p \in Callers :
          ProbeSends(i, 1, response, p)
    \/ \E i \in RoundSlots : \E w \in rounds[i].waiting : ProbeReceives(i, w)
    \/ \E i \in RoundSlots : CommitRound(i)
    \/ \E p \in Callers :
          \/ ServeAutoCheck(p)
          \/ Lookup(p)
          \/ InsertEvent(p)
          \/ InsertIncident(p)
          \/ Backfill(p)
          \/ Respond(p)

\* The interval trigger keeps firing, the worker threads and the request handlers of
\* the server keep running.
OutageFairness ==
    /\ WF_vars(TimerStartsRound)
    /\ WF_vars(\E i \in RoundSlots, response \in UnhealthyResponses, p \in Callers :
                  ProbeSends(i, 1, response, p))
    /\ WF_vars(\E i \in RoundSlots : \E w \in rounds[i].waiting : ProbeReceives(i, w))
    /\ WF_vars(\E i \in RoundSlots : CommitRound(i))
    /\ \A p \in Callers :
          /\ WF_vars(ServeAutoCheck(p))
          /\ WF_vars(Lookup(p))
          /\ WF_vars(InsertEvent(p))
          /\ WF_vars(InsertIncident(p))
          /\ WF_vars(Backfill(p))
          /\ WF_vars(Respond(p))

SpecOutage == InitOutage /\ [][OutageStep]_vars /\ OutageFairness

\* More live services than the executor has workers.
PoolServices == 1 .. max_workers + 1

\* check_endpoints has just submitted the tasks of a round over PoolServices.
InitPool ==
    /\ health_status = <<>>
    /\ expired = 0
    /\ analysis = NoAnalysis
    /\ incidents = <<>>
    /\ events = <<>>
    /\ calls = [p \in Callers |-> IdleCall]
    /\ InitRequests
    /\ is_live = [s \in Services |-> TRUE]
    /\ \E running \in Submitted(PoolServices) :
          rounds = [i \in RoundSlots |->
                       IF i = 1 THEN StartedRound("never_run", PoolServices, running)
                       ELSE IdleRound]
    /\ last_trigger = "started"
    /\ process = "running"
    /\ stop_requests = 0
    /\ clock = 0

PoolStep ==
    \/ \E s \in PoolServices : WorkerTakes(1, s)
    \/ \E s \in PoolServices, response \in {NoResponse, [completed |-> TRUE, status_code |-> 200]} :
          /\ Len(rounds[1].results) < MaxPoolResults
          /\ Probe(1, s, response, "ok")

\* The thread pool of one round that has more tasks than workers, up to the first
\* MaxPoolResults results.
SpecPool == InitPool /\ [][PoolStep]_vars

\* Requests to the two degradation check endpoints, interleaved at every commit.
SpecEndpoint == InitEndpoint /\ [][EndpointStep]_vars

(***************************************************************************)
(* Analyzer claims, checked under SpecAnalyze.                             *)
(***************************************************************************)

\* The window the last analysis read: the rows of its service, all still in place.
\* Health_Status is append-only, so an equal row count means the same rows.
AnalysedWindow == QueryHealthRecords(analysis.service_id)
AnalysisIsCurrent ==
    /\ analysis.status = "ok"
    /\ analysis.total_records >= 1
    /\ analysis.total_records = Len(AnalysedWindow)

\* Zero-based positions of the unhealthy observations of a window.
UnhealthyAt(w) == {i \in 0 .. Len(w) - 1 : ~w[i + 1].is_health}
RecentUnhealthyAt(w) == {i \in UnhealthyAt(w) : i >= Len(w) \div 2}
ConditionA(w) == Cardinality(UnhealthyAt(w)) * 100 >= 70 * Len(w)
ConditionB(w) ==
    /\ Cardinality(UnhealthyAt(w)) > 0
    /\ Cardinality(RecentUnhealthyAt(w)) * 100 >= 90 * Cardinality(UnhealthyAt(w))

\* C7: for every non-empty window, analyze returns degraded exactly when
\* Condition A (unhealthy*100/n >= 70) or Condition B (some observation is
\* unhealthy and those at positions floor(n/2)..n-1 are at least 90% of the
\* unhealthy ones) holds; with odd n the middle observation counts as recent.
C7_DegradedIffAOrB ==
    AnalysisIsCurrent =>
        (analysis.is_degraded <=> (ConditionA(AnalysedWindow) \/ ConditionB(AnalysedWindow)))

\* C7 witness: a window of three, only the middle observation unhealthy: A fails
\* (33%), B holds because the middle position 1 = floor(3/2) is recent.
C7_Witness ==
    /\ AnalysisIsCurrent
    /\ Len(AnalysedWindow) = 3
    /\ UnhealthyAt(AnalysedWindow) = {1}
    /\ analysis.is_degraded

\* C8: every window whose unhealthy observations are at least 70% of all
\* observations, exactly 70% included, is degraded, whatever their order.
C8_SeventyPercentDegraded ==
    (AnalysisIsCurrent /\ Cardinality(UnhealthyAt(AnalysedWindow)) * 10 >= 7 * Len(AnalysedWindow))
        => analysis.is_degraded

\* C8 witness: exactly 7 of 10 unhealthy, the unhealthy ones first, so that
\* Condition B fails (2 of 7 are recent) and Condition A alone decides.
C8_Witness ==
    /\ AnalysisIsCurrent
    /\ Len(AnalysedWindow) = 10
    /\ UnhealthyAt(AnalysedWindow) = 0 .. 6
    /\ ~ConditionB(AnalysedWindow)
    /\ analysis.is_degraded

\* C9: every window whose first half (positions below floor(n/2)) is all healthy
\* and whose second half holds an unhealthy observation is degraded, also when
\* the failure rate is below 70%.
C9_RecentBurstDegraded ==
    (/\ AnalysisIsCurrent
     /\ UnhealthyAt(AnalysedWindow) # {}
     /\ \A i \in UnhealthyAt(AnalysedWindow) : i >= Len(AnalysedWindow) \div 2)
        => analysis.is_degraded

\* C9 witness: six observations, the first five healthy and the last unhealthy:
\* the rate is 16%, below the threshold of Condition A.
C9_Witness ==
    /\ AnalysisIsCurrent
    /\ Len(AnalysedWindow) = 6
    /\ UnhealthyAt(AnalysedWindow) = {5}
    /\ ~ConditionA(AnalysedWindow)
    /\ analysis.is_degraded

\* C10: a window of exactly one observation, and that one unhealthy, is degraded.
C10_SingleUnhealthyDegraded ==
    (AnalysisIsCurrent /\ Len(AnalysedWindow) = 1 /\ UnhealthyAt(AnalysedWindow) = {0})
        => analysis.is_degraded

\* C10 witness: the analysis of a single unhealthy observation.
C10_Witness ==
    /\ AnalysisIsCurrent
    /\ Len(AnalysedWindow) = 1
    /\ UnhealthyAt(AnalysedWindow) = {0}
    /\ analysis.is_degraded

(***************************************************************************)
(* Window claims, checked under SpecWindow.                                *)
(***************************************************************************)

\* The observations of a service that are inside the window now, oldest first.
WindowOf(s) ==
    LET at == {i \in expired + 1 .. Len(health_status) : health_status[i].service_id = s}
        nth[k \in 0 .. Cardinality(at)] ==
            IF k = 0 THEN 0 ELSE CHOOSE i \in at : i > nth[k - 1] /\
                                    \A j \in at : j > nth[k - 1] => i <= j
    IN  [k \in 1 .. Cardinality(at) |-> health_status[nth[k]]]

\* Every observation of a service ever persisted, oldest first.
AllTimeOf(s) == SelectSeq(health_status, LAMBDA r : r.service_id = s)

\* The verdict as a function of a window alone.
Verdict(w) == w # <<>> /\ (ConditionA(w) \/ ConditionB(w))

\* C11: for an existing service with no observation inside the trailing window,
\* analyze returns not degraded and raises no error.
C11_EmptyWindowNotDegraded ==
    [][(/\ analysis' # analysis
        /\ analysis'.service_id \in Services
        /\ WindowOf(analysis'.service_id) = <<>>)
          => (analysis'.status = "ok" /\ ~analysis'.is_degraded)]_vars

\* An analysis of a service whose only observations, one of them unhealthy, are older
\* than the window.
C11_Witness ==
    /\ analysis.status = "ok"
    /\ analysis.service_id \in Services
    /\ analysis.total_records = 0
    /\ ~analysis.is_degraded
    /\ WindowOf(analysis.service_id) = <<>>
    /\ \E i \in 1 .. expired :
          health_status[i].service_id = analysis.service_id /\ ~health_status[i].is_health

\* C13: a call of analyze leaves the observations, the incidents and the events as
\* they were, and its verdict is a function of the observations of the service that
\* are inside the window, in their order, and of nothing else.
C13_AnalyzeReadsOnlyTheWindow ==
    [][analysis' # analysis =>
          /\ health_status' = health_status
          /\ expired' = expired
          /\ incidents' = incidents
          /\ events' = events
          /\ analysis'.status = "ok" =>
                /\ analysis'.total_records = Len(WindowOf(analysis'.service_id))
                /\ analysis'.is_degraded = Verdict(WindowOf(analysis'.service_id))]_vars

\* A degraded verdict over a window that older observations of the service would have
\* turned around, with rows of another service and an incident in the store.
C13_Witness ==
    /\ analysis.status = "ok"
    /\ analysis.is_degraded
    /\ analysis.total_records = Len(WindowOf(analysis.service_id))
    /\ Verdict(WindowOf(analysis.service_id))
    /\ ~Verdict(AllTimeOf(analysis.service_id))
    /\ \E i \in DOMAIN health_status : health_status[i].service_id # analysis.service_id
    /\ Len(incidents) >= 1
    /\ Len(events) >= 1

(***************************************************************************)
(* Correlator claims.                                                      *)
(***************************************************************************)

\* A degraded call that has returned its result.
Completed(p) == calls[p].pc = "done" /\ calls[p].is_degraded

\* C1: under any interleaving of concurrent correlate calls, every service has
\* at most one Incident whose status is OPEN or ACKNOWLEDGED.
C1_AtMostOneOpenIncident ==
    \A s \in Services : Cardinality(OpenIncidents(s)) <= 1

\* The store held an OPEN incident of service s before any call began: under
\* SpecCorrelate that is row 1 when no event created it.
OpenBeforeCalls(s) ==
    /\ Len(incidents) >= 1
    /\ incidents[1].created_by_event = None
    /\ incidents[1].service_id = s
    /\ incidents[1].status = OPEN

\* C2: with an OPEN incident of the service in place, two degraded correlate
\* calls for it, interleaved at any step, create no further Incident and create
\* two DegradationEvents, both referencing the existing incident.
C2_CorrelationIdempotent ==
    \A s \in Services :
        OpenBeforeCalls(s) =>
            /\ {i \in DOMAIN incidents : incidents[i].service_id = s} = {1}
            /\ \A p \in Callers :
                  (Completed(p) /\ calls[p].service_id = s) =>
                      /\ calls[p].incident = None
                      /\ calls[p].degradation_event \in DOMAIN events
                      /\ events[calls[p].degradation_event].service_id = s
                      /\ events[calls[p].degradation_event].incident_id = 1
                      /\ calls[p].result.incident_id = 1
            /\ \A p \in Callers, q \in Callers :
                  (/\ p # q
                   /\ Completed(p) /\ calls[p].service_id = s
                   /\ Completed(q) /\ calls[q].service_id = s)
                  => calls[p].degradation_event # calls[q].degradation_event

\* C2 witness: both callers have completed a degraded call for the service of
\* the incident that was OPEN before they began.
C2_Witness ==
    \E s \in Services :
        /\ OpenBeforeCalls(s)
        /\ \A p \in Callers : Completed(p) /\ calls[p].service_id = s
        /\ Len(events) = 2

\* Every incident of the service is CLOSED, and there is one.
AllClosed(s) ==
    /\ \E i \in DOMAIN incidents : incidents[i].service_id = s
    /\ \A i \in DOMAIN incidents :
          incidents[i].service_id = s => incidents[i].status = CLOSED

\* C3: when every incident of a service is CLOSED, a degraded correlate call
\* finds no incident to attach to, goes on to insert an Incident under a new
\* id with status OPEN, and no step of the call changes an existing incident:
\* a CLOSED incident is not reopened.
C3_NewIncidentAfterClosed ==
    [][\A p \in Callers :
        LET c == calls[p]
            d == calls'[p]
        IN  /\ (c.pc = "lookup" /\ d.pc # "lookup" /\ AllClosed(c.service_id))
                  => (d.open_incident = None /\ d.pc = "insert_event")
            /\ (c.pc = "insert_event" /\ c.open_incident = None /\ d.pc # "insert_event")
                  => d.pc \in {"insert_incident", "failed"}
            /\ (c.pc = "insert_incident" /\ d.pc \notin {"insert_incident", "failed"})
                  => /\ d.pc = "backfill"
                     /\ d.incident = Len(incidents) + 1
                     /\ DOMAIN incidents' = 1 .. Len(incidents) + 1
                     /\ incidents'[d.incident].status = OPEN
                     /\ incidents'[d.incident].service_id = c.service_id
            /\ (c # d) => \A i \in DOMAIN incidents :
                              i \in DOMAIN incidents' /\ incidents'[i] = incidents[i]
      ]_vars

\* C3 witness: the service's first incident is CLOSED and a completed call has
\* created its second one, which is OPEN.
C3_Witness ==
    \E p \in Callers :
        /\ Completed(p)
        /\ Len(incidents) = 2
        /\ incidents[1].status = CLOSED
        /\ incidents[1].service_id = calls[p].service_id
        /\ calls[p].incident = 2
        /\ incidents[2].status = OPEN
        /\ incidents[2].service_id = calls[p].service_id

\* C4: a degraded correlate call whose lookup found no OPEN or ACKNOWLEDGED
\* incident of the service has, when it completes, created exactly one new
\* Incident of that service with status OPEN, set the incident reference of its
\* DegradationEvent to it, and returns its id.
C4_NewIncidentLinkedAndReturned ==
    \A p \in Callers :
        (Completed(p) /\ calls[p].open_incident = None)
        =>  LET c == calls[p]
            IN  /\ c.degradation_event \in DOMAIN events
                /\ c.incident \in DOMAIN incidents
                /\ {i \in DOMAIN incidents :
                       incidents[i].created_by_event = c.degradation_event} = {c.incident}
                /\ incidents[c.incident].service_id = c.service_id
                /\ incidents[c.incident].status = OPEN
                /\ events[c.degradation_event].service_id = c.service_id
                /\ events[c.degradation_event].incident_id = c.incident
                /\ c.result.incident_id = c.incident

\* C4 witness: a completed call on a store that held no incident at all.
C4_Witness ==
    \E p \in Callers :
        /\ Completed(p)
        /\ calls[p].open_incident = None
        /\ Len(incidents) = 1
        /\ calls[p].result.incident_id = 1

\* C5: when a write inside a correlate call fails, no DegradationEvent and no
\* Incident created by that call remains in the store.
C5_FailedCallLeavesNothing ==
    \A p \in Callers :
        calls[p].pc = "failed"
        =>  /\ calls[p].degradation_event \notin DOMAIN events
            /\ calls[p].incident \notin DOMAIN incidents

\* C6: the only status changes any operation makes to an Incident are OPEN to
\* ACKNOWLEDGED, ACKNOWLEDGED to CLOSED and OPEN to CLOSED.
C6_IncidentStateMachine ==
    [][\A i \in DOMAIN incidents :
        incidents'[i].status # incidents[i].status
        => <<incidents[i].status, incidents'[i].status>> \in
              {<<OPEN, ACKNOWLEDGED>>, <<ACKNOWLEDGED, CLOSED>>, <<OPEN, CLOSED>>}
      ]_vars

\* C12: a correlate call with is_degraded false for an existing service returns no
\* incident id and the message 'not degraded', and from its start to its return the
\* call changes neither the incidents nor the events.
C12_NotDegradedChangesNothing ==
    [][\A p \in Callers :
          /\ (/\ calls[p].pc = "idle"
              /\ calls'[p].pc # "idle"
              /\ calls'[p].service_id \in Services
              /\ ~calls'[p].is_degraded)
                => /\ calls'[p].pc = "done"
                   /\ calls'[p].result = [incident_id |-> None, message |-> "not degraded"]
                   /\ incidents' = incidents
                   /\ events' = events
          /\ (/\ calls[p].pc # "idle"
              /\ calls[p].service_id \in Services
              /\ ~calls[p].is_degraded
              /\ calls'[p] # calls[p])
                => /\ calls'[p] = IdleCall
                   /\ incidents' = incidents
                   /\ events' = events]_vars

\* A completed not-degraded call for a service that has an incident and an event.
C12_Witness ==
    \E p \in Callers :
        /\ calls[p].pc = "done"
        /\ ~calls[p].is_degraded
        /\ calls[p].result = [incident_id |-> None, message |-> "not degraded"]
        /\ \E i \in DOMAIN incidents : incidents[i].service_id = calls[p].service_id
        /\ \E e \in DOMAIN events : events[e].service_id = calls[p].service_id

(***************************************************************************)
(* Endpoint claims, checked under SpecEndpoint.                            *)
(***************************************************************************)

\* C14: a check of a service id that matches no service ends in a not-found error
\* that reaches the caller of the auto-check and of the manual check entry point as
\* an error kind of its own: its response never carries the status that the response
\* to another failure, a failed write, carries.
C14_NotFoundIsDistinct ==
    \A p, q \in Callers :
        (/\ requests[p].pc = "responded"
         /\ requests[p].cause = "not_found"
         /\ requests[q].pc = "responded"
         /\ requests[q].cause = "commit_failed")
            => requests[p].http_status # requests[q].http_status

(***************************************************************************)
(* Prober and scheduler claims, checked under SpecScheduler.               *)
(***************************************************************************)

\* The rows a step has added to Health_Status.
AddedRows == SubSeq(health_status', Len(health_status) + 1, Len(health_status'))

\* C15: every probe round that completes persists exactly one observation for each
\* service that was live when the round started and none for any other service; a
\* service whose request failed or timed out is among them, recorded unhealthy with
\* status 0, and the other services of the round have their observations all the same.
C15_OneObservationPerLiveService ==
    [][\A i \in RoundSlots :
          /\ (rounds[i].pc # "probing" /\ rounds'[i].pc = "probing")
                => rounds'[i].services = {s \in Services : is_live[s]}
          /\ (rounds[i].pc = "probing" /\ rounds'[i].pc = "completed")
                => /\ SubSeq(health_status', 1, Len(health_status)) = health_status
                   /\ \A s \in Services :
                         Cardinality({k \in DOMAIN AddedRows : AddedRows[k].service_id = s})
                            = IF s \in rounds[i].services THEN 1 ELSE 0
                   /\ \A k \in DOMAIN rounds[i].results :
                         ~rounds[i].results[k].response.completed
                            => \E n \in DOMAIN AddedRows :
                                  AddedRows[n] = [service_id |-> rounds[i].results[k].service_id,
                                                  is_health |-> FALSE,
                                                  timestamp |-> rounds[i].results[k].timestamp,
                                                  status_code |-> 0]]_vars

\* A completed round over two live services: the request to one failed, the other
\* answered 200, and both observations are in the table.
C15_Witness ==
    \E i \in RoundSlots :
        /\ rounds[i].pc = "completed"
        /\ rounds[i].services = Services
        /\ \E a, b \in DOMAIN health_status :
              /\ health_status[a].service_id # health_status[b].service_id
              /\ health_status[a].status_code = 0
              /\ ~health_status[a].is_health
              /\ health_status[b].status_code = 200
              /\ health_status[b].is_health
        /\ Len(health_status) = 2

\* C16: an observation is healthy exactly when the request completed with a status in
\* 200..299; any other completed response is recorded unhealthy with its own status
\* code; a timeout, a refused connection or any other transport error is recorded
\* unhealthy with status code 0.  So every persisted observation with status code 0
\* is unhealthy.
C16_HealthyIffStatus2xx ==
    /\ \A i \in RoundSlots : \A k \in DOMAIN rounds[i].results :
          LET result == rounds[i].results[k]
          IN  /\ result.is_health =
                    (result.response.completed /\ result.response.status_code \in 200 .. 299)
              /\ result.response.completed => result.status_code = result.response.status_code
              /\ ~result.response.completed => result.status_code = 0
    /\ \A k \in DOMAIN health_status :
          health_status[k].status_code = 0 => ~health_status[k].is_health

\* A round that has seen a response with status 300 and a request that failed, and a
\* persisted observation with status code 0.
C16_Witness ==
    /\ \E i \in RoundSlots : \E k, n \in DOMAIN rounds[i].results :
          /\ rounds[i].results[k].response = [completed |-> TRUE, status_code |-> 300]
          /\ ~rounds[i].results[k].is_health
          /\ rounds[i].results[k].status_code = 300
          /\ rounds[i].results[n].response = NoResponse
    /\ \E k \in DOMAIN health_status : health_status[k].status_code = 0

\* C17: at most one probe round is executing at any time: while a round is running,
\* also for longer than the interval, the trigger starts no other.
C17_AtMostOneRound ==
    Cardinality({i \in RoundSlots : rounds[i].pc = "probing"}) <= 1

\* The trigger has fired while a round was running, and that round is still running.
C17_Witness ==
    /\ last_trigger = "skipped"
    /\ \E i \in RoundSlots : rounds[i].pc = "probing" /\ rounds[i].results # <<>>

\* C18: after a round has ended with an exception the scheduler keeps running: as
\* long as no stop is requested the process is up, no instance of the job is left
\* behind, and the trigger can start the next round.
C18_SchedulerSurvivesFailedRound ==
    (/\ \E i \in RoundSlots : rounds[i].pc = "failed"
     /\ stop_requests = 0
     /\ Len(health_status) + Cardinality({s \in Services : is_live[s]}) <= MaxProbeRecords)
        => (process = "running" /\ ENABLED TimerStartsRound)

\* A round that has completed and persisted its observations after the round before
\* it ended with an exception.
C18_Witness ==
    \E i \in RoundSlots :
        /\ rounds[i].pc = "completed"
        /\ rounds[i].previous = "failed"
        /\ Len(health_status) = Cardinality(rounds[i].services)
        /\ rounds[i].services # {}

C20_NoExitMidRound ==
    process = "exited" => \A i \in RoundSlots : rounds[i].pc # "probing"

(***************************************************************************)
(* Claims on the incident operations and on the events of the correlator.  *)
(***************************************************************************)

\* C24: create_planned_incident for an existing service always creates a new
\* Incident with status OPEN and type PLANNED, whether or not the service already
\* has an OPEN or ACKNOWLEDGED incident, and creates no DegradationEvent.
C24_PlannedIncidentAlwaysCreated ==
    [][/\ \A s \in Services :
             Len(incidents) < MaxIncidents => ENABLED CreatePlannedIncident(s)
       /\ (/\ Len(incidents') > Len(incidents)
           /\ incidents'[Len(incidents')].event_type = PLANNED)
             => /\ Len(incidents') = Len(incidents) + 1
                /\ SubSeq(incidents', 1, Len(incidents)) = incidents
                /\ incidents'[Len(incidents')].status = OPEN
                /\ incidents'[Len(incidents')].created_by_event = None
                /\ events' = events]_vars

\* Two incidents of one service that are both open or acknowledged, the later one
\* planned, and no event in the store.
C24_Witness ==
    /\ Len(incidents) = 2
    /\ incidents[1].service_id = incidents[2].service_id
    /\ incidents[1].status \in {OPEN, ACKNOWLEDGED}
    /\ incidents[2].status = OPEN
    /\ incidents[2].event_type = PLANNED
    /\ events = <<>>

\* The store held an ACKNOWLEDGED incident of service s before any call began, and
\* it is the only incident of s that is not closed.
AcknowledgedBeforeCalls(s) ==
    /\ Len(incidents) >= 1
    /\ incidents[1].created_by_event = None
    /\ incidents[1].service_id = s
    /\ incidents[1].status = ACKNOWLEDGED

\* C25: if the only non-closed incident of a service is ACKNOWLEDGED, a degraded
\* correlate call creates no new Incident, creates one DegradationEvent that
\* references the acknowledged incident, returns that incident's id, and leaves the
\* incident ACKNOWLEDGED.
C25_AcknowledgedIncidentReused ==
    [][\A s \in Services :
          AcknowledgedBeforeCalls(s) =>
             /\ incidents'[1] = incidents[1]
             /\ {i \in DOMAIN incidents' : incidents'[i].service_id = s} = {1}
             /\ \A p \in Callers :
                   (/\ calls'[p].pc = "done"
                    /\ calls'[p].is_degraded
                    /\ calls'[p].service_id = s) =>
                       /\ calls'[p].incident = None
                       /\ calls'[p].degradation_event \in DOMAIN events'
                       /\ events'[calls'[p].degradation_event].service_id = s
                       /\ events'[calls'[p].degradation_event].incident_id = 1
                       /\ calls'[p].result.incident_id = 1]_vars

\* A completed degraded call for the service of the acknowledged incident: one event,
\* one incident, still acknowledged.
C25_Witness ==
    \E s \in Services, p \in Callers :
        /\ AcknowledgedBeforeCalls(s)
        /\ calls[p].pc = "done"
        /\ calls[p].is_degraded
        /\ calls[p].service_id = s
        /\ calls[p].result.incident_id = 1
        /\ Len(incidents) = 1
        /\ Len(events) = 1
        /\ events[1].incident_id = 1

\* C26: every degraded correlate call that completes has added exactly one
\* DegradationEvent, for its service, and nothing but the insert of a degraded
\* correlate call adds a DegradationEvent: not analyze, not a not-degraded correlate
\* call, not the creation of a planned incident, not an incident update.
C26_OneEventPerDegradedCall ==
    [][/\ Len(events') # Len(events) =>
             /\ Len(events') = Len(events) + 1
             /\ \E p \in Callers :
                   /\ calls[p].pc = "insert_event"
                   /\ calls[p].is_degraded
                   /\ calls[p].degradation_event = None
                   /\ calls'[p].degradation_event = Len(events')
                   /\ events'[Len(events')].service_id = calls[p].service_id
       /\ \A p \in Callers :
             /\ (calls[p].degradation_event # None /\ calls'[p].pc # "idle")
                   => calls'[p].degradation_event = calls[p].degradation_event
             /\ (calls'[p].pc = "done" /\ calls'[p].is_degraded)
                   => /\ calls'[p].degradation_event \in DOMAIN events'
                      /\ events'[calls'[p].degradation_event].service_id
                            = calls'[p].service_id
             /\ (calls'[p].pc = "done" /\ ~calls'[p].is_degraded)
                   => calls'[p].degradation_event = None]_vars

\* Two degraded calls have completed one after the other and the store holds two
\* events, while planned incidents were created and an analysis was made.
C26_Witness ==
    /\ Len(events) = 2
    /\ calls["c1"].pc = "done"
    /\ calls["c1"].is_degraded
    /\ calls["c1"].degradation_event = 2
    /\ \E i \in DOMAIN incidents : incidents[i].event_type = PLANNED
    /\ analysis.status = "ok"

\* C27: once the incident reference of a DegradationEvent is not null it never changes,
\* and the service id, timestamp, window length and auto-triggered flag of an event
\* never change after its creation, under any interleaving of correlate calls.
C27_EventFieldsImmutable ==
    [][\A e \in DOMAIN events :
          /\ e \in DOMAIN events'
          /\ events'[e].service_id = events[e].service_id
          /\ events'[e].timestamp = events[e].timestamp
          /\ events'[e].time_window_minutes = events[e].time_window_minutes
          /\ events'[e].auto_triggered = events[e].auto_triggered
          /\ events[e].incident_id # None =>
                events'[e].incident_id = events[e].incident_id]_vars

\* Two calls raced for one service: both events are linked, to different incidents,
\* and the later link was written while the earlier one was already in place.
C27_Witness ==
    /\ Len(events) = 2
    /\ events[1].service_id = events[2].service_id
    /\ events[1].incident_id # None
    /\ events[2].incident_id # None
    /\ events[1].incident_id # events[2].incident_id
    /\ \A p \in Callers : calls[p].pc = "done" /\ calls[p].incident # None

\* The creator tag line 115 gives an incident.
CreatorTag(auto_triggered) == IF auto_triggered THEN "auto_run" ELSE "user"

\* C28: an Incident created by the correlator has creator "auto_run" exactly when the
\* call was auto-triggered and the manual tag "user" otherwise, and the event of the
\* call carries the same auto_triggered value.
C28_CreatorFollowsAutoTriggered ==
    /\ \A i \in DOMAIN incidents :
          incidents[i].created_by_event # None =>
             /\ incidents[i].created_by_event \in DOMAIN events
             /\ incidents[i].created_by \in {"auto_run", "user"}
             /\ incidents[i].created_by = "auto_run"
                   <=> events[incidents[i].created_by_event].auto_triggered
    /\ \A p \in Callers :
          /\ calls[p].degradation_event # None =>
                events[calls[p].degradation_event].auto_triggered = calls[p].auto_triggered
          /\ calls[p].incident # None =>
                /\ incidents[calls[p].incident].created_by = CreatorTag(calls[p].auto_triggered)
                /\ incidents[calls[p].incident].created_by_event = calls[p].degradation_event

\* An auto-triggered call and a manual call have each created an incident.
C28_Witness ==
    /\ Len(incidents) = 2
    /\ \A i \in 1 .. 2 : incidents[i].created_by_event # None
    /\ \E i, j \in 1 .. 2 :
          /\ incidents[i].created_by = "auto_run"
          /\ events[incidents[i].created_by_event].auto_triggered
          /\ incidents[j].created_by = "user"
          /\ ~events[incidents[j].created_by_event].auto_triggered
    /\ \E p \in Callers : calls[p].pc = "done" /\ calls[p].incident # None

(***************************************************************************)
(* Claims on the inside of a probe round.                                  *)
(***************************************************************************)

\* The services the results of round i are about.
Probed(i) == {rounds[i].results[k].service_id : k \in DOMAIN rounds[i].results}

\* C21: within a probe round no more than 10 probes execute at the same time, however
\* many live services there are, and every service of the round is probed exactly
\* once: it waits, or it is executing, or it has its one result.
C21_AtMostTenProbesInFlight ==
    \A i \in RoundSlots :
        /\ Cardinality(rounds[i].running) <= 10
        /\ rounds[i].running \subseteq rounds[i].pending
        /\ rounds[i].pending \subseteq rounds[i].services
        /\ Probed(i) = rounds[i].services \ rounds[i].pending
        /\ Cardinality(Probed(i)) = Len(rounds[i].results)

\* Eleven services: ten probes are executing, among them the one that had to wait for
\* a worker, and the probe that made room for it has its result.
C21_Witness ==
    /\ Cardinality(rounds[1].services) = 11
    /\ Cardinality(rounds[1].running) = 10
    /\ rounds[1].pending = rounds[1].running
    /\ Len(rounds[1].results) = 1

\* C22: neither a probe whose request failed nor a failed call of the analyzer for an
\* unhealthy service (analyzer unreachable, timeout, error response) makes the round
\* fail or takes an observation out of the batch: every probe that resolves leaves
\* the round running with one more result, for that service, and the commit of the
\* round persists a row for every result.
C22_FailuresKeepTheBatch ==
    [][\A i \in RoundSlots :
          /\ (rounds[i].pc = "probing" /\ rounds'[i].pending # rounds[i].pending)
                => /\ rounds'[i].pc = "probing"
                   /\ Len(rounds'[i].results) = Len(rounds[i].results) + 1
                   /\ SubSeq(rounds'[i].results, 1, Len(rounds[i].results)) = rounds[i].results
                   /\ rounds[i].pending \ rounds'[i].pending
                         = {rounds'[i].results[Len(rounds'[i].results)].service_id}
          /\ (rounds[i].pc = "probing" /\ rounds'[i].pc = "completed")
                => AddedRows = [k \in DOMAIN rounds[i].results |->
                                   HealthStatusRow(rounds[i].results[k])]]_vars

\* A completed round of two services: the request to one failed and the analyzer was
\* unreachable, the other answered 500 and the analyzer answered with an error; both
\* observations are in the table.
C22_Witness ==
    \E i \in RoundSlots :
        /\ rounds[i].pc = "completed"
        /\ Len(rounds[i].results) = 2
        /\ ~rounds[i].results[1].response.completed
        /\ rounds[i].results[1].degradation_check = "unreachable"
        /\ rounds[i].results[2].status_code = 500
        /\ rounds[i].results[2].degradation_check = "error_response"
        /\ health_status = <<HealthStatusRow(rounds[i].results[1]),
                              HealthStatusRow(rounds[i].results[2])>>

\* How many requests for the analysis of service s round r has issued.
RequestsFor(r, s) ==
    Cardinality({k \in DOMAIN r.degradation_requests : r.degradation_requests[k] = s})

\* C23: in every round, for each service whose probe is unhealthy exactly one request
\* for a degradation analysis of that service is issued, while the round is still
\* probing and before its batch is persisted, and none is issued for a service whose
\* probe is healthy.
C23_OneAnalysisRequestPerUnhealthyProbe ==
    [][\A i \in RoundSlots :
          /\ rounds'[i].degradation_requests # rounds[i].degradation_requests
                => \/ rounds'[i].degradation_requests = <<>>
                   \/ /\ rounds[i].pc = "probing"
                      /\ rounds'[i].pc = "probing"
                      /\ health_status' = health_status
          /\ (rounds[i].pc = "probing" /\ rounds'[i].pc = "completed")
                => /\ rounds'[i].degradation_requests = rounds[i].degradation_requests
                   /\ \A k \in DOMAIN rounds[i].results :
                         RequestsFor(rounds[i], rounds[i].results[k].service_id)
                            = IF rounds[i].results[k].is_health THEN 0 ELSE 1
                   /\ \A s \in Services \ Probed(i) : RequestsFor(rounds[i], s) = 0]_vars

\* A persisted round of two services, one healthy and one unhealthy: the one request
\* of the round was for the unhealthy one.
C23_Witness ==
    \E i \in RoundSlots :
        /\ rounds[i].pc = "completed"
        /\ Len(health_status) = 2
        /\ Len(rounds[i].results) = 2
        /\ rounds[i].results[1].is_health
        /\ ~rounds[i].results[2].is_health
        /\ rounds[i].degradation_requests = <<rounds[i].results[2].service_id>>

\* C29: the observations of a round become visible in the store together, in one
\* commit, and only after every probe of the round has resolved: the table changes
\* only by a step that appends the rows of all the services of one round at once, so
\* it never holds some but not all observations of a round.
C29_RoundPersistedAtOnce ==
    [][health_status' # health_status =>
          \E i \in RoundSlots :
             /\ rounds[i].pc = "probing"
             /\ rounds'[i].pc = "completed"
             /\ rounds[i].pending = {}
             /\ Probed(i) = rounds[i].services
             /\ Len(rounds[i].results) = Cardinality(rounds[i].services)
             /\ health_status' = health_status \o
                   [k \in DOMAIN rounds[i].results |-> HealthStatusRow(rounds[i].results[k])]]_vars

\* Both observations of a round of two services are in the table, in the order in
\* which the probes completed, here the reverse of the order of the service ids.
C29_Witness ==
    \E i \in RoundSlots :
        /\ rounds[i].pc = "completed"
        /\ rounds[i].services = {1, 2}
        /\ Len(health_status) = 2
        /\ health_status[1].service_id = 2
        /\ health_status[2].service_id = 1

\* C30: for every service, the observation a later round persisted has a timestamp
\* that is not earlier than that of the observation any earlier round persisted: the
\* rows of a service, in the order in which the rounds committed them, are in the
\* order of their timestamps.
C30_TimestampsFollowRounds ==
    \A a, b \in DOMAIN health_status :
        (a < b /\ health_status[a].service_id = health_status[b].service_id)
            => health_status[a].timestamp <= health_status[b].timestamp

\* Two rounds have each persisted an observation of the same service, and the clock
\* moved between the two probes.
C30_Witness ==
    /\ Len(health_status) = 2
    /\ health_status[1].service_id = health_status[2].service_id
    /\ health_status[1].timestamp < health_status[2].timestamp
    /\ \E i \in RoundSlots : rounds[i].pc = "completed" /\ rounds[i].previous = "completed"

(***************************************************************************)
(* Claims on the correlator across services and on its references.         *)
(***************************************************************************)

\* The service the call of caller p is for, in a step that call takes.
ServiceOfStep(p) ==
    IF calls[p].pc = "idle" THEN calls'[p].service_id ELSE calls[p].service_id

\* C31: a correlate call for service S, interleaved in any way with calls for other
\* services, creates or changes only Incidents and DegradationEvents of S: every
\* row of another service is the same after each of its steps, and every row it adds
\* has service id S.
C31_CallTouchesOnlyItsService ==
    [][\A p \in Callers :
          calls'[p] # calls[p] =>
             /\ \A i \in DOMAIN incidents :
                   /\ i \in DOMAIN incidents'
                   /\ incidents'[i] # incidents[i] => incidents[i].service_id = ServiceOfStep(p)
             /\ \A i \in DOMAIN incidents' \ DOMAIN incidents :
                   incidents'[i].service_id = ServiceOfStep(p)
             /\ \A e \in DOMAIN events :
                   /\ e \in DOMAIN events'
                   /\ events'[e] # events[e] => events[e].service_id = ServiceOfStep(p)
             /\ \A e \in DOMAIN events' \ DOMAIN events :
                   events'[e].service_id = ServiceOfStep(p)]_vars

\* Calls for two different services ran side by side and both completed, each with
\* an incident and an event of its own service.
C31_Witness ==
    /\ calls["c1"].pc = "done" /\ calls["c2"].pc = "done"
    /\ calls["c1"].service_id # calls["c2"].service_id
    /\ calls["c1"].incident # None /\ calls["c2"].incident # None
    /\ \A p \in Callers :
          /\ incidents[calls[p].incident].service_id = calls[p].service_id
          /\ events[calls[p].degradation_event].service_id = calls[p].service_id
          /\ events[calls[p].degradation_event].incident_id = calls[p].incident

\* C32: every probe round that starts eventually finishes: each probe and each call
\* of the analyzer resolves, here by its timeout, after which the round persists its
\* batch, or ends with the exception of a commit the store did not accept.
C32_RoundEventuallyFinishes ==
    \A i \in RoundSlots :
        (rounds[i].pc = "probing") ~> (rounds[i].pc \in {"completed", "failed"})

\* A round of two services whose probes and analyzer calls all timed out has
\* persisted both observations.
C32_Witness ==
    \E i \in RoundSlots :
        /\ rounds[i].pc = "completed"
        /\ Len(rounds[i].results) = 2
        /\ \A k \in 1 .. 2 : /\ ~rounds[i].results[k].response.completed
                               /\ rounds[i].results[k].degradation_check = "timeout"
        /\ Len(health_status) = 2
        /\ \A k \in 1 .. 2 : ~health_status[k].is_health

(***************************************************************************)
(* Claims on the two analyzers, checked under SpecAnalyze.                 *)
(***************************************************************************)

\* C34: every window with at least one unhealthy observation whose unhealthy
\* observations all lie at positions floor(n/2) or later is degraded whatever its
\* failure rate, for the analyzer of the application and for the analyzer of the
\* degradation service alike.
C34_LateFailuresDegraded ==
    (/\ AnalysisIsCurrent
     /\ UnhealthyAt(AnalysedWindow) # {}
     /\ UnhealthyAt(AnalysedWindow) \subseteq
           (Len(AnalysedWindow) \div 2) .. (Len(AnalysedWindow) - 1))
        => /\ analysis.is_degraded
           /\ DegradationService_analyze_health_data(analysis.service_id).is_degraded
           /\ DegradationService_analyze_health_data(analysis.service_id)
                 .recent_concentrated_failures

\* Nine healthy observations followed by a single unhealthy one: a failure rate of
\* 10%, and degraded.
C34_Witness ==
    /\ AnalysisIsCurrent
    /\ Len(AnalysedWindow) = 10
    /\ UnhealthyAt(AnalysedWindow) = {9}
    /\ analysis.is_degraded
    /\ DegradationService_analyze_health_data(analysis.service_id).is_degraded
    /\ DegradationService_analyze_health_data(analysis.service_id).unhealthy_records = 1

\* C38: with the thresholds 70 and 90 and the window of 60 minutes, the analyzer of
\* DegradationService/main.py (field is_degraded) and the analyzer of
\* app/services/degradation_functions.py give the same verdict for every history of
\* observations of every existing service.
C38_AnalyzersAgree ==
    \A s \in Services :
        /\ DegradationService_analyze_health_data(s).status = analyze_health_data(s).status
        /\ DegradationService_analyze_health_data(s).is_degraded
              = analyze_health_data(s).is_degraded
        /\ DegradationService_analyze_health_data(s).total_records
              = analyze_health_data(s).total_records

\* Nine observations of service 1, the first six unhealthy: short of both thresholds
\* (66% and one recent failure of six), and not degraded for either analyzer, while
\* the single unhealthy observation of service 2 is degraded for both.
C38_Witness ==
    /\ Len(QueryHealthRecords(1)) = 9
    /\ UnhealthyAt(QueryHealthRecords(1)) = 0 .. 5
    /\ ~analyze_health_data(1).is_degraded
    /\ ~DegradationService_analyze_health_data(1).is_degraded
    /\ DegradationService_analyze_health_data(1).unhealthy_records = 6
    /\ Len(QueryHealthRecords(2)) = 1
    /\ analyze_health_data(2).is_degraded
    /\ DegradationService_analyze_health_data(2).is_degraded

(***************************************************************************)
(* Claims on what a correlate call leaves in the store.                    *)
(***************************************************************************)

\* Incident i is planned, is OPEN or ACKNOWLEDGED, and is the only incident of
\* service s that is not closed.
PlannedOnly(s, i) ==
    /\ i \in DOMAIN incidents
    /\ incidents[i].event_type = PLANNED
    /\ {j \in DOMAIN incidents :
           /\ incidents[j].service_id = s
           /\ incidents[j].status \in {OPEN, ACKNOWLEDGED}} = {i}

\* C36: while a PLANNED incident of a service is OPEN or ACKNOWLEDGED and the service
\* has no other non-closed incident, a degraded correlate call for the service creates
\* no UN-PLANNED incident: its lookup finds the planned incident, its event is attached
\* to the planned incident and the planned incident's id is returned.
C36_PlannedIncidentAbsorbsEvent ==
    [][\A p \in Callers, i \in 1 .. MaxIncidents :
          (/\ PlannedOnly(calls[p].service_id, i)
           /\ calls'[p] # calls[p]
           /\ calls'[p].pc # "failed") =>
              /\ calls[p].pc = "lookup" =>
                    /\ calls'[p].open_incident = i
                    /\ incidents' = incidents
                    /\ events' = events
              /\ (calls[p].pc = "insert_event" /\ calls[p].open_incident = i) =>
                    /\ incidents' = incidents
                    /\ Len(events') = Len(events) + 1
                    /\ events'[Len(events')].service_id = calls[p].service_id
                    /\ events'[Len(events')].incident_id = i
                    /\ calls'[p].pc = "done"
                    /\ calls'[p].incident = None
                    /\ calls'[p].result.incident_id = i]_vars

\* A degraded call has returned the id of an acknowledged planned incident, its event
\* points at it, and the store holds no UN-PLANNED incident.
C36_Witness ==
    \E p \in Callers :
        /\ calls[p].pc = "done"
        /\ calls[p].is_degraded
        /\ PlannedOnly(calls[p].service_id, calls[p].result.incident_id)
        /\ incidents[calls[p].result.incident_id].status = ACKNOWLEDGED
        /\ calls[p].degradation_event \in DOMAIN events
        /\ events[calls[p].degradation_event].incident_id = calls[p].result.incident_id
        /\ \A j \in DOMAIN incidents : incidents[j].event_type = PLANNED

\* No correlate call is between its lookup and its return.
NoCallInProgress == \A p \in Callers : calls[p].pc \in {"idle", "done", "not_found"}

\* C37: in every state in which no correlate call is in progress and no write has
\* failed, every DegradationEvent has a non-null incident reference, and the referenced
\* Incident exists and has the same service id as the event.
C37_EventsReferenceTheirIncident ==
    NoCallInProgress =>
        \A e \in DOMAIN events :
            /\ events[e].incident_id # None
            /\ events[e].incident_id \in DOMAIN incidents
            /\ incidents[events[e].incident_id].service_id = events[e].service_id

\* Both calls have returned: one event went to the planned incident that was in the
\* store, the other to an incident of its own, for another service.
C37_Witness ==
    /\ \A p \in Callers : calls[p].pc = "idle"
    /\ Len(events) = 2
    /\ Len(incidents) = 2
    /\ incidents[1].event_type = PLANNED
    /\ incidents[2].event_type = UNPLANNED
    /\ incidents[1].service_id # incidents[2].service_id
    /\ {events[1].incident_id, events[2].incident_id} = {1, 2}

\* In the tables given, incident i names an event that points back at it and is of
\* its service.
LinkedToCreator(incident_rows, event_rows, i) ==
    /\ i \in DOMAIN incident_rows
    /\ incident_rows[i].created_by_event \in DOMAIN event_rows
    /\ event_rows[incident_rows[i].created_by_event].incident_id = i
    /\ event_rows[incident_rows[i].created_by_event].service_id = incident_rows[i].service_id

\* C39: for every Incident created by a correlate call, once the call has completed
\* the incident's created_by_event names a DegradationEvent whose incident reference is
\* that same incident and whose service id is the incident's: it is so when the call
\* returns, and it stays so under every later step.
C39_CreatedByEventPointsBack ==
    [][/\ \A p \in Callers :
             (calls[p].pc # "done" /\ calls'[p].pc = "done" /\ calls'[p].incident # None) =>
                 /\ LinkedToCreator(incidents', events', calls'[p].incident)
                 /\ incidents'[calls'[p].incident].created_by_event
                       = calls'[p].degradation_event
       /\ \A i \in DOMAIN incidents :
             (incidents[i].created_by_event # None
              /\ LinkedToCreator(incidents, events, i)) =>
                 LinkedToCreator(incidents', events', i)]_vars

\* Two calls raced for one service and have returned: each created an incident, and
\* each incident names the event that points back at it.
C39_Witness ==
    /\ \A p \in Callers : calls[p].pc = "idle"
    /\ Len(incidents) = 2
    /\ incidents[1].service_id = incidents[2].service_id
    /\ \A i \in DOMAIN incidents :
          incidents[i].created_by_event # None /\ LinkedToCreator(incidents, events, i)
    /\ incidents[1].created_by_event # incidents[2].created_by_event

(***************************************************************************)
(* Claims on the prober together with the auto-check endpoint, checked     *)
(* under SpecMonitor.                                                      *)
(***************************************************************************)

\* The scheduler is in its first round, or has finished it and started no other: every
\* analysis requested so far was requested by a probe of the first round, for a
\* service that had no observation in the store when the round began.
FirstRoundOnly ==
    /\ rounds[1].pc # "never_run"
    /\ rounds[1].previous = "never_run"

\* C33: when the prober requests analysis for an unhealthy probe of round r, that
\* round's observation of the service is not yet in the store, so the verdict is
\* computed from earlier rounds only; for a service with no earlier observation in the
\* window the request returns not-degraded and creates no DegradationEvent and no
\* Incident.  On a store that starts empty this says that no request of the first
\* round finds its service degraded, and that the first round leaves no event and no
\* incident behind.
C33_VerdictFromEarlierRoundsOnly ==
    FirstRoundOnly =>
        /\ \A p \in Callers : ~requests[p].is_degraded
        /\ events = <<>>
        /\ incidents = <<>>

\* C35: if from some round on every probe of a live service is unhealthy, rounds keep
\* firing and every analysis request succeeds, then eventually a DegradationEvent for
\* the service is recorded and the service has an Incident in status OPEN or
\* ACKNOWLEDGED at the moment that correlate call completes.
C35_OutageReachesIncident ==
    <>(\E p \in Callers :
          /\ calls[p].pc = "done"
          /\ calls[p].service_id = 1
          /\ calls[p].degradation_event \in DOMAIN events
          /\ events[calls[p].degradation_event].service_id = 1
          /\ \E i \in DOMAIN incidents :
                /\ incidents[i].service_id = 1
                /\ incidents[i].status \in {OPEN, ACKNOWLEDGED}
                /\ events[calls[p].degradation_event].incident_id = i)

\* The second round of the outage: its request found the unhealthy observation of the
\* first round, and the call has just returned the incident it opened beside the
\* closed planned one.
C35_Witness ==
    /\ rounds[1].pc = "probing"
    /\ rounds[1].previous = "completed"
    /\ Len(health_status) = 1
    /\ ~health_status[1].is_health
    /\ Len(incidents) = 2
    /\ incidents[1].status = CLOSED
    /\ incidents[2].status = OPEN
    /\ incidents[2].created_by = "auto_run"
    /\ \E p \in Callers :
          /\ calls[p].pc = "done"
          /\ calls[p].result.incident_id = 2
          /\ requests[p].pc = "correlating"
          /\ events[calls[p].degradation_event].incident_id = 2

====
